---- MODULE Spec2Model ----
(***************************************************************************)
(* gargle: command-line parsing.  A model of the tokenizer, the parser,    *)
(* the value application and the action dispatch of Command.Parse.         *)
(*                                                                         *)
(* A Go string is modelled as a sequence of one-character strings (one     *)
(* element per rune), so that prefix tests, the split at the first "=" and *)
(* the decoding of a short cluster are computed character by character.    *)
(***************************************************************************)
EXTENDS Integers, Sequences, FiniteSets, TLC

VARIABLES
    argv,        \* the argument vector handed to Command.Parse
    cfg,         \* the declarations that vary: actions, required, failing
    targs,       \* tokenizer.args: the strings not read yet
    tnext,       \* tokenizer.next: the token on deck, or NoToken
    context,     \* parser.context
    commands,    \* parser.commands: child name -> command
    flags,       \* parser.flags: long name -> flag
    shortFlags,  \* parser.shortFlags: short character -> flag
    args,        \* parser.args: the positional queue
    parsed,      \* the entities parsed so far (Parse's local "parsed")
    verbatim,    \* Parse's local "verbatim"
    pc,          \* the position of Command.Parse
    parseErr,    \* the error parser.Parse returned, or NoErr
    result,      \* the error Command.Parse returned, NoErr, or Panic
    store,       \* the program variables the Values are bound to
    seen,        \* setValues' local "seen"
    setLog,      \* the Set calls made, in order
    preLog,      \* the pre-actions invoked, in order
    actLog,      \* the Actions invoked, in order
    tokLog,      \* the tokens tokenizer.Next returned, in order
    tree         \* the Commands' fields parent, commands and args

vars == <<argv, cfg, targs, tnext, context, commands, flags, shortFlags, args,
          parsed, verbatim, pc, parseErr, result, store, seen, setLog, preLog,
          actLog, tokLog, tree>>

-----------------------------------------------------------------------------
(* Bounds of the model. *)

\* The longest argument vector.
MaxArgs == 3

\* The most commands or arguments passed to one AddCommands or AddArgs call.
MaxAdd == 2

\* The most positional arguments declared in all.
MaxDecl == 2

-----------------------------------------------------------------------------
(* Strings. *)

HasPrefix(s, p) ==
    /\ Len(s) >= Len(p)
    /\ SubSeq(s, 1, Len(p)) = p

\* s[n:] of Go, with n counted from 0.
From(s, n) == SubSeq(s, n + 1, Len(s))

\* The least index of character c in s, or 0.
IndexOf(s, c) ==
    IF \E i \in 1..Len(s) : s[i] = c
    THEN CHOOSE i \in 1..Len(s) : s[i] = c /\ \A j \in 1..(i - 1) : s[j] # c
    ELSE 0

\* The greatest index of character c in s, or 0.
LastIndexOf(s, c) ==
    IF \E i \in 1..Len(s) : s[i] = c
    THEN CHOOSE i \in 1..Len(s) : s[i] = c /\ \A j \in (i + 1)..Len(s) : s[j] # c
    ELSE 0

\* A split at the last "=".
SplitN2_AtLast(s) ==
    IF LastIndexOf(s, "=") = 0 THEN <<s>>
    ELSE <<SubSeq(s, 1, LastIndexOf(s, "=") - 1),
           SubSeq(s, LastIndexOf(s, "=") + 1, Len(s))>>

\* A split that takes an empty text after "=" as no text.
SplitN2_DropEmpty(s) ==
    IF IndexOf(s, "=") = 0 \/ IndexOf(s, "=") = Len(s)
    THEN <<SubSeq(s, 1, Len(s) - (IF IndexOf(s, "=") = 0 THEN 0 ELSE 1))>>
    ELSE <<SubSeq(s, 1, IndexOf(s, "=") - 1), SubSeq(s, IndexOf(s, "=") + 1, Len(s))>>

\* strings.SplitN(s, "=", 2)
SplitN2(s) ==
    LET i == IndexOf(s, "=") IN
    IF i = 0 THEN <<s>> ELSE <<SubSeq(s, 1, i - 1), SubSeq(s, i + 1, Len(s))>>

Dash == <<"-">>
DashDash == <<"-", "-">>
Empty == <<>>

-----------------------------------------------------------------------------
(* Tokens and the tokenizer. *)

tokenEOF == "EOF"
tokenVerbatim == "Verbatim"
tokenLong == "Long"
tokenShort == "Short"
tokenValue == "Value"
tokenAssigned == "Assigned"
tokenRemainder == "Remainder"

Token(type, value) == [Type |-> type, Value |-> value]

NoToken == [Type |-> "nil", Value |-> Empty]

\* token.String()
TokenString(t) ==
    IF t.Type = tokenLong THEN DashDash \o t.Value
    ELSE IF t.Type = tokenShort THEN Dash \o t.Value
    ELSE t.Value

\* tokenizer.Peek(): the token on deck, never a remainder.
Peek(next) ==
    IF next # NoToken /\ next.Type = tokenRemainder THEN NoToken ELSE next

\* A decodeShort that leaves the cluster without its second rune on deck.
DecodeShort_SkipsOne(arg, rest) ==
    [tok  |-> Token(tokenShort, <<arg[1]>>),
     args |-> rest,
     next |-> IF From(arg, 2) # Empty
              THEN Token(tokenRemainder, From(arg, 2))
              ELSE NoToken]

\* A decodeShort that leaves the whole cluster on deck.
DecodeShort_KeepsAll(arg, rest) ==
    [tok  |-> Token(tokenShort, <<arg[1]>>),
     args |-> rest,
     next |-> Token(tokenRemainder, arg)]

\* A decodeShort that drops what is behind the first rune.
DecodeShort_DropRest(arg, rest) ==
    [tok  |-> Token(tokenShort, <<arg[1]>>),
     args |-> rest,
     next |-> NoToken]

\* tokenizer.decodeShort(arg): the first rune is the flag, the rest waits.
DecodeShort(arg, rest) ==
    [tok  |-> Token(tokenShort, <<arg[1]>>),
     args |-> rest,
     next |-> IF From(arg, 1) # Empty
              THEN Token(tokenRemainder, From(arg, 1))
              ELSE NoToken]

\* tokenizer.Next(verbatim) on a tokenizer with the given args and next:
\* the token returned and the tokenizer's fields afterwards.
TokNext(targs0, next0, verb) ==
    IF next0 # NoToken
    THEN IF next0.Type = tokenRemainder
         THEN IF verb
              THEN [tok |-> Token(tokenAssigned, next0.Value),
                    args |-> targs0, next |-> NoToken]
              ELSE DecodeShort(next0.Value, targs0)
         ELSE [tok |-> next0, args |-> targs0, next |-> NoToken]
    ELSE IF Len(targs0) = 0
    THEN [tok |-> Token(tokenEOF, Empty), args |-> targs0, next |-> NoToken]
    ELSE LET arg == Head(targs0)
             rest == Tail(targs0)
         IN
         IF verb
         THEN [tok |-> Token(tokenValue, arg), args |-> rest, next |-> NoToken]
         ELSE IF HasPrefix(arg, DashDash)
         THEN IF arg = DashDash
              THEN [tok |-> Token(tokenVerbatim, DashDash),
                    args |-> rest, next |-> NoToken]
              ELSE LET parts == SplitN2(From(arg, 2)) IN
                   [tok  |-> Token(tokenLong, parts[1]),
                    args |-> rest,
                    next |-> IF Len(parts) > 1
                             THEN Token(tokenAssigned, parts[2])
                             ELSE NoToken]
         ELSE IF HasPrefix(arg, Dash)
         THEN IF arg = Dash
              THEN [tok |-> Token(tokenValue, arg), args |-> rest, next |-> NoToken]
              ELSE DecodeShort(From(arg, 1), rest)
         ELSE [tok |-> Token(tokenValue, arg), args |-> rest, next |-> NoToken]

-----------------------------------------------------------------------------
(* Values: strconv.ParseBool, strconv.ParseInt and the Set methods. *)

Str_true == <<"t", "r", "u", "e">>
Str_false == <<"f", "a", "l", "s", "e">>

\* The strings strconv.ParseBool accepts.
TrueStrings ==
    {<<"1">>, <<"t">>, <<"T">>, <<"T", "R", "U", "E">>, Str_true,
     <<"T", "r", "u", "e">>}
FalseStrings ==
    {<<"0">>, <<"f">>, <<"F">>, <<"F", "A", "L", "S", "E">>, Str_false,
     <<"F", "a", "l", "s", "e">>}

\* strconv.ParseBool(s)
ParseBool(s) ==
    IF s \in TrueStrings THEN [ok |-> TRUE, val |-> TRUE]
    ELSE IF s \in FalseStrings THEN [ok |-> TRUE, val |-> FALSE]
    ELSE [ok |-> FALSE, val |-> FALSE]

DigitChars == <<"0", "1", "2", "3", "4", "5", "6", "7", "8", "9",
                "a", "b", "c", "d", "e", "f">>

\* The value of a digit character (lower or upper case), or 99: no digit.
DigitVal(c) ==
    IF \E i \in 1..Len(DigitChars) : DigitChars[i] = c
    THEN (CHOOSE i \in 1..Len(DigitChars) : DigitChars[i] = c) - 1
    ELSE IF c = "A" THEN 10 ELSE IF c = "B" THEN 11 ELSE IF c = "C" THEN 12
    ELSE IF c = "D" THEN 13 ELSE IF c = "E" THEN 14 ELSE IF c = "F" THEN 15
    ELSE 99

RECURSIVE DigitsValue(_, _, _)
\* The number the digits of s spell in the base, after acc; -1: a bad digit.
DigitsValue(s, base, acc) ==
    IF s = Empty THEN acc
    ELSE IF DigitVal(Head(s)) >= base THEN -1
    ELSE DigitsValue(Tail(s), base, acc * base + DigitVal(Head(s)))

\* The base and the digits of an unsigned literal in base 0: "0b", "0o" and
\* "0x" need a digit after them, any other leading "0" is octal.
BaseOf(body) ==
    IF body[1] # "0" THEN 10
    ELSE IF Len(body) >= 3 /\ body[2] \in {"b", "B"} THEN 2
    ELSE IF Len(body) >= 3 /\ body[2] \in {"o", "O"} THEN 8
    ELSE IF Len(body) >= 3 /\ body[2] \in {"x", "X"} THEN 16
    ELSE 8

DigitsOf(body) ==
    IF body[1] # "0" THEN body
    ELSE IF Len(body) >= 3 /\ body[2] \in {"b", "B", "o", "O", "x", "X"}
    THEN From(body, 2)
    ELSE From(body, 1)

\* The result of ParseInt from the sign and the magnitude (-1: a bad digit).
Signed(neg, mag) ==
    IF mag < 0 THEN [ok |-> FALSE, val |-> 0]
    ELSE [ok |-> TRUE, val |-> IF neg THEN 0 - mag ELSE mag]

\* strconv.ParseUint(body, 0, ...) under the sign neg.
ParseUnsigned(neg, body) ==
    IF body = Empty THEN [ok |-> FALSE, val |-> 0]
    ELSE Signed(neg, DigitsValue(DigitsOf(body), BaseOf(body), 0))

\* strconv.ParseInt(s, 0, strconv.IntSize): a sign, a base prefix, digits.
\* Strings with "_", and digit strings long enough to leave the range of
\* int, are outside the modelled domain.
ParseInt(s) ==
    IF s = Empty THEN [ok |-> FALSE, val |-> 0]
    ELSE IF Head(s) \in {"-", "+"} THEN ParseUnsigned(Head(s) = "-", Tail(s))
    ELSE ParseUnsigned(FALSE, s)

\* The built-in value types.
ValueTypes == {"bool", "negbool", "string", "strings", "int", "ints"}

\* A Value: its type, the program variable it is bound to, and the defaults
\* of a WithDefault wrapper (wrapped) around it.  NoValue is a nil Value.
ValueOf(type, var) ==
    [type |-> type, var |-> var, wrapped |-> FALSE, defaults |-> <<>>]

NoValue == [type |-> "nil", var |-> "nil", wrapped |-> FALSE, defaults |-> <<>>]

\* WithDefault(v, s...): the wrapper holds the value and the defaults.
WithDefault(v, s) ==
    [type |-> v.type, var |-> v.var, wrapped |-> TRUE, defaults |-> s]

\* WithDefault(v, s...) panics when it is given several defaults for a value
\* that is not an aggregate.
WithDefaultPanics(v, s) == Len(s) > 1 /\ ~(v # NoValue /\ ~v.wrapped /\ v.type \in {"strings", "ints"})

\* IsBoolean(v): v implements BooleanValue; the defaultValue wrapper has only
\* String and Set.
IsBoolean(v) == v # NoValue /\ ~v.wrapped /\ v.type \in {"bool", "negbool"}

\* IsAggregate(v): v implements AggregateValue; the wrapper does not.
IsAggregate(v) == v # NoValue /\ ~v.wrapped /\ v.type \in {"strings", "ints"}

\* "if err == nil { *v = val }; return err" on the result r of a parse
Assign(st, var, r) ==
    [ok |-> r.ok, store |-> IF r.ok THEN [st EXCEPT ![var] = r.val] ELSE st]

\* "if err == nil { *v = append(*v, val) }; return nil"
AppendParsed(st, var, r) ==
    [ok |-> TRUE,
     store |-> IF r.ok THEN [st EXCEPT ![var] = Append(@, r.val)] ELSE st]

\* boolValue.Set
BoolSet(st, var, s) == Assign(st, var, ParseBool(s))

\* The result r of a parse, with the opposite value.
Negated(r) == [ok |-> r.ok, val |-> ~r.val]

\* Set of NegatedBoolVar: the opposite of the Boolean parsed is stored
\* (ExampleNegatedBoolVar: Set("false") makes the variable true).
NegatedBoolSet(st, var, s) == Assign(st, var, Negated(ParseBool(s)))

\* stringValue.Set
StringSet(st, var, s) == [ok |-> TRUE, store |-> [st EXCEPT ![var] = s]]

\* stringSliceValue.Set
StringSliceSet(st, var, s) ==
    [ok |-> TRUE, store |-> [st EXCEPT ![var] = Append(@, s)]]

\* intValue.Set
IntSet(st, var, s) == Assign(st, var, ParseInt(s))

\* intSliceValue.Set: appends when the string parses, and returns nil always.
IntSliceSet(st, var, s) == AppendParsed(st, var, ParseInt(s))

\* Value.Set(s), of the value itself or through the defaultValue wrapper.
ValueSet(st, v, s) ==
    IF v.type = "bool" THEN BoolSet(st, v.var, s)
    ELSE IF v.type = "negbool" THEN NegatedBoolSet(st, v.var, s)
    ELSE IF v.type = "string" THEN StringSet(st, v.var, s)
    ELSE IF v.type = "strings" THEN StringSliceSet(st, v.var, s)
    ELSE IF v.type = "int" THEN IntSet(st, v.var, s)
    ELSE IntSliceSet(st, v.var, s)

-----------------------------------------------------------------------------
(* The command tree the model parses against: the trees of TestParseFlags,  *)
(* TestParseArgs, TestParseCommands and TestParseBoolValue put together.    *)

N_int == <<"i", "n", "t">>
N_bool == <<"b", "o", "o", "l">>
N_array == <<"a", "r", "r", "a", "y">>
N_string == <<"s", "t", "r", "i", "n", "g">>
N_help == <<"h", "e", "l", "p">>
N_warn == <<"w", "a", "r", "n">>
N_no_warn == <<"n", "o", "-", "w", "a", "r", "n">>
N_flag == <<"f", "l", "a", "g">>
N_root == <<"r", "o", "o", "t">>
N_sub1 == <<"s", "u", "b", "1">>
N_sub2 == <<"s", "u", "b", "2">>
N_sub_sub == <<"s", "u", "b", "-", "s", "u", "b">>
N_root_arg == <<"r", "o", "o", "t", "-", "a", "r", "g">>
N_arg == <<"a", "r", "g">>
N_num == <<"n", "u", "m">>
N_rest == <<"r", "e", "s", "t">>
N_ignored == <<"i", "g", "n", "o", "r", "e", "d">>
N_level == <<"l", "e", "v", "e", "l">>
N_enable_foo == <<"e", "n", "a", "b", "l", "e", "-", "f", "o", "o">>
N_disable_foo == <<"d", "i", "s", "a", "b", "l", "e", "-", "f", "o", "o">>
Str_default == <<"d", "e", "f">>

Commands == {"root", "sub1", "sub2", "sub-sub"}
FlagIds ==
    {"int", "bool", "array", "string", "help", "warn", "no-warn", "flag",
     "level", "level1", "level2", "short", "enable-foo", "disable-foo"}
ArgIds == {"root-arg", "arg", "num", "rest", "ignored"}

\* Command.Name
CmdName(c) ==
    CASE c = "root" -> N_root
      [] c = "sub1" -> N_sub1
      [] c = "sub2" -> N_sub2
      [] c = "sub-sub" -> N_sub_sub

\* Command.parent ("nil": none)
Parent(c) ==
    CASE c = "root" -> "nil"
      [] c = "sub1" -> "root"
      [] c = "sub2" -> "root"
      [] c = "sub-sub" -> "sub1"

\* Command.Commands()
Children(c) ==
    CASE c = "root" -> <<"sub1", "sub2">>
      [] c = "sub1" -> <<"sub-sub">>
      [] OTHER -> <<>>

\* Command.Flags()
FlagsOf(c) ==
    CASE c = "root" -> <<"int", "string", "bool", "array", "help", "warn", "no-warn",
                         "level", "enable-foo", "disable-foo">>
      [] c = "sub1" -> <<"flag", "level1", "level2">>
      [] c = "sub-sub" -> <<"short">>
      [] OTHER -> <<>>

\* Command.Args()
ArgsOf(c) ==
    CASE c = "root" -> <<"root-arg">>
      [] c = "sub-sub" -> <<"arg">>
      [] c = "sub2" -> <<"num", "rest", "ignored">>
      [] OTHER -> <<>>

\* The value v of entity e as declared: inside WithDefault when the
\* declaration gives e defaults.
Declared(e, v) ==
    IF e \in DOMAIN cfg.defaults THEN WithDefault(v, cfg.defaults[e]) ELSE v

\* Flag.Name of the Flag declarations.
FlagName(f) ==
    CASE f = "int" -> N_int
      [] f = "string" -> N_string
      [] f = "bool" -> N_bool
      [] f = "array" -> N_array
      [] f = "help" -> N_help
      [] f = "warn" -> N_warn
      [] f = "no-warn" -> N_no_warn
      [] f = "flag" -> N_flag
      [] f \in {"level", "level1", "level2"} -> N_level
      [] f = "short" -> Empty
      [] f = "enable-foo" -> N_enable_foo
      [] f = "disable-foo" -> N_disable_foo

\* Flag.Short of the Flag declarations; Empty when the flag has none.
FlagShort(f) ==
    CASE f = "int" -> <<"i">>
      [] f = "string" -> <<"s">>
      [] f = "bool" -> <<"b">>
      [] f = "array" -> <<"a">>
      [] f = "help" -> <<"h">>
      [] f \in {"level", "short"} -> <<"l">>
      [] OTHER -> Empty

\* Flag.Value of the Flag declarations; --help has none.  The root's --level
\* (-l) is an int; the two flags named level of sub1 and the flag -l of
\* sub-sub are strings; --enable-foo and --disable-foo are bound to the same
\* variable, the second by NegatedBoolVar.
FlagValue(f) ==
    CASE f = "int" -> Declared(f, ValueOf("int", "i"))
      [] f = "string" -> Declared(f, ValueOf("string", "s"))
      [] f = "bool" -> Declared(f, ValueOf("bool", "b"))
      [] f = "array" -> Declared(f, ValueOf("ints", "a"))
      [] f = "help" -> NoValue
      [] f = "warn" -> Declared(f, ValueOf("bool", "w"))
      [] f = "no-warn" -> Declared(f, ValueOf("bool", "nw"))
      [] f = "flag" -> Declared(f, ValueOf("int", "flag"))
      [] f = "level" -> Declared(f, ValueOf("int", "level"))
      [] f \in {"level1", "level2", "short"} -> Declared(f, ValueOf("string", f))
      [] f = "enable-foo" -> Declared(f, ValueOf("bool", "foo"))
      [] f = "disable-foo" -> Declared(f, ValueOf("negbool", "foo"))

\* The Flag declarations: Name, Short and Value.
Flag(f) == [Name |-> FlagName(f), Short |-> FlagShort(f), Value |-> FlagValue(f)]

\* The Arg declarations: Name and Value.
Arg(a) ==
    CASE a = "root-arg" -> [Name |-> N_root_arg,
                            Value |-> Declared(a, ValueOf("string", "rootArg"))]
      [] a = "arg" -> [Name |-> N_arg, Value |-> Declared(a, ValueOf("string", "arg"))]
      [] a = "num" -> [Name |-> N_num, Value |-> Declared(a, ValueOf("int", "n"))]
      [] a = "rest" -> [Name |-> N_rest, Value |-> Declared(a, ValueOf("ints", "rest"))]
      [] a = "ignored" -> [Name |-> N_ignored,
                           Value |-> Declared(a, ValueOf("int", "ignored"))]

\* The Value of a flag or an argument.
EntityValue(e) == IF e \in FlagIds THEN Flag(e).Value ELSE Arg(e).Value

\* The program variables before Parse: the zero values of the tests.
ZeroStore ==
    [i |-> 0, s |-> Empty, b |-> FALSE, a |-> <<>>, w |-> FALSE, nw |-> FALSE,
     flag |-> 0, rootArg |-> Empty, arg |-> Empty, n |-> 0, rest |-> <<>>,
     ignored |-> 0, level |-> 0, level1 |-> Empty, level2 |-> Empty,
     short |-> Empty, foo |-> FALSE]

RECURSIVE FullName(_)
\* Command.FullName()
FullName(c) ==
    IF Parent(c) = "nil" THEN CmdName(c)
    ELSE FullName(Parent(c)) \o <<" ">> \o CmdName(c)

RECURSIVE Stack(_)
\* The commands from c up to the root (setValues' "stack").
Stack(c) == IF Parent(c) = "nil" THEN <<c>> ELSE <<c>> \o Stack(Parent(c))

-----------------------------------------------------------------------------
(* Errors. *)

Err(kind, name, value) == [kind |-> kind, name |-> name, value |-> value]
NoErr == Err("nil", Empty, Empty)
\* A Go runtime panic: the call of a nil Action.
Panic == Err("panic", Empty, Empty)

E_unknownFlag == "unknown flag"
E_notCommand == "is not a valid command"
E_unexpected == "unexpected argument"
E_requires == "requires a value"
E_noValue == "flag does not accept a value"
E_invalid == "invalid value"
E_missingFlag == "missing required flag"
E_missingArg == "missing required argument"
E_preAction == "pre-action error"

-----------------------------------------------------------------------------
(* The parser. *)

\* A map assignment that keeps the value a key already has.
MapPut_KeepFirst(m, k, v) ==
    [x \in DOMAIN m \cup {k} |-> IF x \in DOMAIN m THEN m[x] ELSE v]

\* m[k] = v of a Go map
MapPut(m, k, v) == [x \in DOMAIN m \cup {k} |-> IF x = k THEN v ELSE m[x]]

EmptyMap == [x \in {} |-> "nil"]

RECURSIVE RegisterCommands(_, _)
RegisterCommands(m, cs) ==
    IF cs = <<>> THEN m
    ELSE RegisterCommands(MapPut(m, CmdName(Head(cs)), Head(cs)), Tail(cs))

RECURSIVE RegisterLong(_, _)
RegisterLong(m, fs) ==
    IF fs = <<>> THEN m
    ELSE RegisterLong(IF FlagName(Head(fs)) # Empty
                      THEN MapPut(m, FlagName(Head(fs)), Head(fs))
                      ELSE m,
                      Tail(fs))

RECURSIVE RegisterShort(_, _)
RegisterShort(m, fs) ==
    IF fs = <<>> THEN m
    ELSE RegisterShort(IF FlagShort(Head(fs)) # Empty
                       THEN MapPut(m, FlagShort(Head(fs)), Head(fs))
                       ELSE m,
                       Tail(fs))

\* A setContext that replaces the flags, as it does the commands.
SetContext_OwnFlags(p, c) ==
    [p EXCEPT !.commands = RegisterCommands(EmptyMap, Children(c)),
              !.flags = RegisterLong(EmptyMap, FlagsOf(c)),
              !.shortFlags = RegisterShort(EmptyMap, FlagsOf(c)),
              !.pargs = ArgsOf(c),
              !.context = c]

\* A setContext that appends the arguments to the positional queue.
SetContext_AppendArgs(p, c) ==
    [p EXCEPT !.commands = RegisterCommands(EmptyMap, Children(c)),
              !.flags = RegisterLong(p.flags, FlagsOf(c)),
              !.shortFlags = RegisterShort(p.shortFlags, FlagsOf(c)),
              !.pargs = @ \o ArgsOf(c),
              !.context = c]

\* parser.setContext(c) on a parser p: the commands are replaced, the flags
\* added to those already registered, the positional queue replaced.
SetContext(p, c) ==
    [p EXCEPT !.commands = RegisterCommands(EmptyMap, Children(c)),
              !.flags = RegisterLong(p.flags, FlagsOf(c)),
              !.shortFlags = RegisterShort(p.shortFlags, FlagsOf(c)),
              !.pargs = ArgsOf(c),
              !.context = c]

\* entity{Option, Name, Value}
Entity(option, name, value) == [Option |-> option, Name |-> name, Value |-> value]

\* An end of parseFlagValue without the test for tokenEOF.
OperandFrom_AtEOF(flagToken, r) ==
    [value |-> r.tok.Value, err |-> NoErr, args |-> r.args, next |-> r.next]

\* The end of parseFlagValue: r is what tokenizer.Next(true) gave.
OperandFrom(flagToken, r) ==
    IF r.tok.Type = tokenEOF
    THEN [value |-> Empty,
          err |-> Err(E_requires, TokenString(flagToken), Empty),
          args |-> r.args, next |-> r.next]
    ELSE [value |-> r.tok.Value, err |-> NoErr, args |-> r.args, next |-> r.next]

\* A parseFlagValue that reads the operand with tokenizer.Next(false).
FlagValueFrom_Tokenized(f, flagToken, targs0, next0, tok) ==
    IF tok # NoToken /\ tok.Type = tokenAssigned
    THEN IF Flag(f).Value = NoValue
         THEN [value |-> Empty,
               err |-> Err(E_noValue, TokenString(flagToken), tok.Value),
               args |-> targs0, next |-> next0]
         ELSE [value |-> tok.Value, err |-> NoErr, args |-> targs0, next |-> next0]
    ELSE IF Flag(f).Value = NoValue
    THEN [value |-> Empty, err |-> NoErr, args |-> targs0, next |-> next0]
    ELSE IF IsBoolean(Flag(f).Value)
    THEN [value |-> Str_true, err |-> NoErr, args |-> targs0, next |-> next0]
    ELSE OperandFrom(flagToken, TokNext(targs0, next0, FALSE))

\* A parseFlagValue without the cases for a flag that has no Value.
FlagValueFrom_NoMarker(f, flagToken, targs0, next0, tok) ==
    IF tok # NoToken /\ tok.Type = tokenAssigned
    THEN [value |-> tok.Value, err |-> NoErr, args |-> targs0, next |-> next0]
    ELSE OperandFrom(flagToken, TokNext(targs0, next0, TRUE))

\* parseFlagValue with tok what tokenizer.Peek() gave.
FlagValueFrom(f, flagToken, targs0, next0, tok) ==
    IF tok # NoToken /\ tok.Type = tokenAssigned
    THEN IF Flag(f).Value = NoValue
         THEN [value |-> Empty,
               err |-> Err(E_noValue, TokenString(flagToken), tok.Value),
               args |-> targs0, next |-> next0]
         ELSE [value |-> tok.Value, err |-> NoErr, args |-> targs0, next |-> next0]
    ELSE IF Flag(f).Value = NoValue
    THEN [value |-> Empty, err |-> NoErr, args |-> targs0, next |-> next0]
    ELSE IF IsBoolean(Flag(f).Value)
    THEN [value |-> Str_true, err |-> NoErr, args |-> targs0, next |-> next0]
    ELSE OperandFrom(flagToken, TokNext(targs0, next0, TRUE))

\* A parseFlagValue without the case of the Boolean flag.
ParseFlagValue_NoBoolean(f, flagToken, targs0, next0) ==
    IF Peek(next0) # NoToken /\ Peek(next0).Type = tokenAssigned
    THEN FlagValueFrom(f, flagToken, targs0, next0, Peek(next0))
    ELSE IF Flag(f).Value = NoValue
    THEN [value |-> Empty, err |-> NoErr, args |-> targs0, next |-> next0]
    ELSE OperandFrom(flagToken, TokNext(targs0, next0, TRUE))

\* parser.parseFlagValue(flag, flagToken) on a tokenizer with fields targs0,
\* next0: the value, the error, and the tokenizer's fields afterwards.  An
\* assigned value is peeked at and left on deck.
ParseFlagValue(f, flagToken, targs0, next0) ==
    FlagValueFrom(f, flagToken, targs0, next0, Peek(next0))

\* The end of a flag case: v is what parseFlagValue gave for flag f.
Resolved(p, token, f, v) ==
    IF v.err # NoErr
    THEN [p EXCEPT !.err = v.err, !.targs = v.args, !.tnext = v.next]
    ELSE [p EXCEPT !.targs = v.args, !.tnext = v.next,
                   !.parsed = Append(@, Entity(f, TokenString(token), v.value))]

\* A flag case of Parse's switch, with the table the token is looked up in.
OnFlag(p, token, table) ==
    IF token.Value \notin DOMAIN table
    THEN [p EXCEPT !.err = Err(E_unknownFlag, token.Value, Empty)]
    ELSE Resolved(p, token, table[token.Value],
                  ParseFlagValue(table[token.Value], token, p.targs, p.tnext))

\* case tokenLong
OnLong(p, token) == OnFlag(p, token, p.flags)

\* case tokenShort
OnShort(p, token) == OnFlag(p, token, p.shortFlags)

\* A tokenVerbatim case that leaves the mode as it is.
OnVerbatim_Ignored(p, token) == p

\* case tokenVerbatim
OnVerbatim(p, token) == [p EXCEPT !.verbatim = TRUE]

\* The positional case: the token goes to argument a, the head of the queue,
\* A positional case that pops the argument whatever its Value is.
Positional_AlwaysPop(p, token, a) ==
    [p EXCEPT !.pargs = Tail(@),
              !.parsed = Append(@, Entity(a, Arg(a).Name, token.Value))]

\* which stays there when its value is an aggregate.
Positional(p, token, a) ==
    [p EXCEPT !.pargs = IF IsAggregate(Arg(a).Value) THEN @ ELSE Tail(@),
              !.parsed = Append(@, Entity(a, Arg(a).Name, token.Value))]

\* A command case that records nothing.
Subcommand_Unrecorded(p, token, c) == SetContext(p, c)

\* A command case that records the command and stays in the context.
Subcommand_NotEntered(p, token, c) ==
    [p EXCEPT !.parsed = Append(@, Entity(c, CmdName(c), token.Value))]

\* The command case: the command is recorded and becomes the context.
Subcommand(p, token, c) ==
    SetContext([p EXCEPT !.parsed = Append(@, Entity(c, CmdName(c), token.Value))], c)

\* A tokenValue case that tries the positional arguments first.
OnValue_ArgsFirst(p, token) ==
    IF p.pargs # <<>> THEN Positional(p, token, Head(p.pargs))
    ELSE IF token.Value \notin DOMAIN p.commands
    THEN [p EXCEPT !.err = Err(E_notCommand,
                               FullName(p.context) \o <<" ">> \o token.Value,
                               Empty)]
    ELSE Subcommand(p, token, p.commands[token.Value])

\* A tokenValue case whose error names the value alone.
OnValue_BareName(p, token) ==
    IF DOMAIN p.commands # {}
    THEN IF token.Value \notin DOMAIN p.commands
         THEN [p EXCEPT !.err = Err(E_notCommand, token.Value, Empty)]
         ELSE Subcommand(p, token, p.commands[token.Value])
    ELSE IF p.pargs = <<>>
    THEN [p EXCEPT !.err = Err(E_unexpected, token.Value, Empty)]
    ELSE Positional(p, token, Head(p.pargs))

\* A tokenValue case that drops a value no argument is left for.
OnValue_DropsExtra(p, token) ==
    IF DOMAIN p.commands # {}
    THEN IF token.Value \notin DOMAIN p.commands
         THEN [p EXCEPT !.err = Err(E_notCommand,
                                    FullName(p.context) \o <<" ">> \o token.Value,
                                    Empty)]
         ELSE Subcommand(p, token, p.commands[token.Value])
    ELSE IF p.pargs = <<>>
    THEN p
    ELSE Positional(p, token, Head(p.pargs))

\* case tokenValue: a command when the context has any, or else the next
\* positional argument.
OnValue(p, token) ==
    IF DOMAIN p.commands # {}
    THEN IF token.Value \notin DOMAIN p.commands
         THEN [p EXCEPT !.err = Err(E_notCommand,
                                    FullName(p.context) \o <<" ">> \o token.Value,
                                    Empty)]
         ELSE Subcommand(p, token, p.commands[token.Value])
    ELSE IF p.pargs = <<>>
    THEN [p EXCEPT !.err = Err(E_unexpected, token.Value, Empty)]
    ELSE Positional(p, token, Head(p.pargs))

\* A token of a type the switch has no case for (tokenAssigned) is dropped.
OnOther(p, token) == p

\* The parser and its tokenizer, as one record.
Parser ==
    [targs |-> targs, tnext |-> tnext, context |-> context,
     commands |-> commands, flags |-> flags, shortFlags |-> shortFlags,
     pargs |-> args, parsed |-> parsed, verbatim |-> verbatim, err |-> NoErr]

\* newParser(rootCommand, args)
NewParser(root, av) ==
    SetContext([targs |-> av, tnext |-> NoToken, context |-> "nil",
                commands |-> EmptyMap, flags |-> EmptyMap,
                shortFlags |-> EmptyMap, pargs |-> <<>>, parsed |-> <<>>,
                verbatim |-> FALSE, err |-> NoErr],
               root)

\* The switch of Parse's loop on the token's type.
Switch(p, token) ==
    CASE token.Type = tokenEOF -> p
      [] token.Type = tokenVerbatim -> OnVerbatim(p, token)
      [] token.Type = tokenLong -> OnLong(p, token)
      [] token.Type = tokenShort -> OnShort(p, token)
      [] token.Type = tokenValue -> OnValue(p, token)
      [] OTHER -> OnOther(p, token)

\* The turn of the loop after tokenizer.Next(verbatim) gave r.
AfterNext(p, r) == Switch([p EXCEPT !.targs = r.args, !.tnext = r.next], r.tok)

\* One turn of Parse's loop on parser p: tokenizer.Next(verbatim), then the
\* switch on the token's type.
LoopBody(p) == AfterNext(p, TokNext(p.targs, p.tnext, p.verbatim))

-----------------------------------------------------------------------------
(* Pre-actions, value application, defaults and required entities. *)

\* A pre-action call, as logged: the entity and the context it was given.
PreCall(e, ctx) == [entity |-> e, ctx |-> ctx]

\* An invokePreActions that logs the calls last to first.
Prepend_AtEnd(call, r) == [log |-> r.log \o <<call>>, err |-> r.err]

\* The result of invokePreActions with one more call in front.
Prepend(call, r) == [log |-> <<call>> \o r.log, err |-> r.err]

RECURSIVE InvokePreActions(_, _, _, _)
\* invokePreActions(context, parsed): every parsed entity with a PreAction
\* (pre) is invoked in order; the first error (failing) is returned.
InvokePreActions(ctx, es, pre, failing) ==
    IF es = <<>> THEN [log |-> <<>>, err |-> NoErr]
    ELSE IF Head(es).Option \notin pre
    THEN InvokePreActions(ctx, Tail(es), pre, failing)
    ELSE IF Head(es).Option \in failing
    THEN [log |-> <<PreCall(Head(es).Option, ctx)>>,
          err |-> Err(E_preAction, Head(es).Name, Empty)]
    ELSE Prepend(PreCall(Head(es).Option, ctx),
                 InvokePreActions(ctx, Tail(es), pre, failing))

\* A Set call, as logged: the entity, the raw string, and whether it came
\* from a default.
SetCall(e, s, d) == [entity |-> e, value |-> s, default |-> d]

\* The walk w (store, seen, log, err) after the Set call c gave r; onErr is
\* the error Set's failure is reported as.
AfterSet(w, c, r, onErr) ==
    IF r.ok THEN [w EXCEPT !.log = Append(@, c), !.store = r.store]
    ELSE [w EXCEPT !.log = Append(@, c), !.err = onErr]

\* A first loop of setValues that sets only the first occurrence of an
\* entity.
SetOne_KeepFirst(w, e) ==
    IF e.Option \in w.seen \/ EntityValue(e.Option) = NoValue
    THEN [w EXCEPT !.seen = @ \cup {e.Option}]
    ELSE AfterSet([w EXCEPT !.seen = @ \cup {e.Option}],
                  SetCall(e.Option, e.Value, FALSE),
                  ValueSet(w.store, EntityValue(e.Option), e.Value),
                  Err(E_invalid, e.Name, e.Value))

\* One parsed entity in the first loop of setValues: it is marked seen and
\* its value, if it has one, is set.
SetOne(w, e) ==
    IF EntityValue(e.Option) = NoValue
    THEN [w EXCEPT !.seen = @ \cup {e.Option}]
    ELSE AfterSet([w EXCEPT !.seen = @ \cup {e.Option}],
                  SetCall(e.Option, e.Value, FALSE),
                  ValueSet(w.store, EntityValue(e.Option), e.Value),
                  Err(E_invalid, e.Name, e.Value))

RECURSIVE SetParsed(_, _)
\* The first loop of setValues: the parsed flags and arguments are marked
\* seen and set, in order, up to the first Set error.  Commands have no
\* setValue and are skipped.
SetParsed(w, es) ==
    IF es = <<>> \/ w.err # NoErr THEN w
    ELSE IF Head(es).Option \in Commands THEN SetParsed(w, Tail(es))
    ELSE SetParsed(SetOne(w, Head(es)), Tail(es))

RECURSIVE ApplyDefault(_, _, _, _)
\* applyDefault(v): Set is called for each default in order, up to the first
\* error; a value without the wrapper has none.
ApplyDefault(w, e, v, ds) ==
    IF ~v.wrapped \/ ds = <<>> \/ w.err # NoErr THEN w
    ELSE ApplyDefault(AfterSet(w, SetCall(e, Head(ds), TRUE),
                               ValueSet(w.store, v, Head(ds)),
                               Err(E_invalid, Empty, Head(ds))),
                      e, v, Tail(ds))

RECURSIVE Reverse(_)
Reverse(q) == IF q = <<>> THEN <<>> ELSE Reverse(Tail(q)) \o <<Head(q)>>

RECURSIVE UnsetOrder(_)
\* The order in which setValues visits the declarations: the commands of the
\* stack from the root down, each one's flags and then its arguments.
UnsetOrder(cs) ==
    IF cs = <<>> THEN <<>>
    ELSE FlagsOf(Head(cs)) \o ArgsOf(Head(cs)) \o UnsetOrder(Tail(cs))

\* The name a missing entity is reported under.
MissingErr(e) ==
    IF e \in FlagIds THEN Err(E_missingFlag, DashDash \o Flag(e).Name, Empty)
    ELSE Err(E_missingArg, Arg(e).Name, Empty)

RECURSIVE ValidateUnset(_, _, _)
\* The second loop of setValues: an unseen entity is an error when required,
\* and has its defaults applied otherwise.
ValidateUnset(w, es, required) ==
    IF es = <<>> \/ w.err # NoErr THEN w
    ELSE IF Head(es) \in w.seen THEN ValidateUnset(w, Tail(es), required)
    ELSE IF Head(es) \in required THEN [w EXCEPT !.err = MissingErr(Head(es))]
    ELSE ValidateUnset(ApplyDefault(w, Head(es), EntityValue(Head(es)),
                                    EntityValue(Head(es)).defaults),
                       Tail(es), required)

\* The walk w with only those entities seen whose variable is not the zero
\* value.
SeenByValue(w) ==
    [w EXCEPT !.seen = {e \in @ : \/ EntityValue(e) = NoValue
                                  \/ w.store[EntityValue(e).var]
                                       # ZeroStore[EntityValue(e).var]}]

\* A setValues that takes a variable with the zero value for one not set.
SetValues_ByValue(ctx, es, st, required) ==
    ValidateUnset(SeenByValue(SetParsed([store |-> st, seen |-> {}, log |-> <<>>,
                                         err |-> NoErr], es)),
                  UnsetOrder(Reverse(Stack(ctx))), required)

\* A setValues that checks Required on the flags only.
SetValues_FlagsOnly(ctx, es, st, required) ==
    ValidateUnset(SetParsed([store |-> st, seen |-> {}, log |-> <<>>, err |-> NoErr], es),
                  UnsetOrder(Reverse(Stack(ctx))), required \cap FlagIds)

\* The walk w2 with the error of the walk w1 if it has none of its own.
FirstError(w1, w2) == IF w2.err # NoErr THEN w2 ELSE [w2 EXCEPT !.err = w1.err]

\* A setValues that goes on to the second loop after a Set error.
SetValues_GoesOn(ctx, es, st, required) ==
    FirstError(SetParsed([store |-> st, seen |-> {}, log |-> <<>>, err |-> NoErr], es),
               ValidateUnset([SetParsed([store |-> st, seen |-> {}, log |-> <<>>,
                                         err |-> NoErr], es) EXCEPT !.err = NoErr],
                             UnsetOrder(Reverse(Stack(ctx))), required))

\* A setValues that visits the unset entities of the context alone.
SetValues_OwnOnly(ctx, es, st, required) ==
    ValidateUnset(SetParsed([store |-> st, seen |-> {}, log |-> <<>>, err |-> NoErr], es),
                  UnsetOrder(<<ctx>>), required)

\* A setValues that visits the unset entities from the context up.
SetValues_LeafFirst(ctx, es, st, required) ==
    ValidateUnset(SetParsed([store |-> st, seen |-> {}, log |-> <<>>, err |-> NoErr], es),
                  UnsetOrder(Stack(ctx)), required)

\* setValues(context, parsed)
SetValues(ctx, es, st, required) ==
    ValidateUnset(SetParsed([store |-> st, seen |-> {}, log |-> <<>>, err |-> NoErr], es),
                  UnsetOrder(Reverse(Stack(ctx))), required)

-----------------------------------------------------------------------------
(* Command.Parse, step by step. *)

\* The token the next turn of Parse's loop reads.
NextToken == TokNext(targs, tnext, verbatim).tok

\* The parser's fields after a turn of the loop; Parse returns on an error.
Commit(p) ==
    /\ targs' = p.targs
    /\ tnext' = p.tnext
    /\ context' = p.context
    /\ commands' = p.commands
    /\ flags' = p.flags
    /\ shortFlags' = p.shortFlags
    /\ args' = p.pargs
    /\ parsed' = p.parsed
    /\ verbatim' = p.verbatim
    /\ parseErr' = p.err
    /\ tokLog' = Append(tokLog, NextToken)
    /\ pc' = IF p.err # NoErr \/ NextToken.Type = tokenEOF THEN "pre" ELSE "parse"
    /\ UNCHANGED <<argv, cfg, result, store, seen, setLog, preLog, actLog, tree>>

\* case tokenEOF: Parse returns what it parsed.
ParseEOF ==
    /\ pc = "parse"
    /\ NextToken.Type = tokenEOF
    /\ Commit(LoopBody(Parser))

ParseVerbatim ==
    /\ pc = "parse"
    /\ NextToken.Type = tokenVerbatim
    /\ Commit(LoopBody(Parser))

ParseLong ==
    /\ pc = "parse"
    /\ NextToken.Type = tokenLong
    /\ Commit(LoopBody(Parser))

ParseShort ==
    /\ pc = "parse"
    /\ NextToken.Type = tokenShort
    /\ Commit(LoopBody(Parser))

ParseValue ==
    /\ pc = "parse"
    /\ NextToken.Type = tokenValue
    /\ Commit(LoopBody(Parser))

\* A token the switch has no case for: the assigned value a flag peeked at.
ParseOther ==
    /\ pc = "parse"
    /\ NextToken.Type = tokenAssigned
    /\ Commit(LoopBody(Parser))

\* A Command.Parse that returns the parse error before the error of the
\* pre-actions.
AfterPreActions_ParseErrorFirst(r) ==
    /\ preLog' = r.log
    /\ IF parseErr # NoErr THEN /\ result' = parseErr
                                /\ pc' = "done"
       ELSE IF r.err # NoErr THEN /\ result' = r.err
                                  /\ pc' = "done"
       ELSE /\ result' = result
            /\ pc' = "set"

\* A Command.Parse that goes on to setValues after a parse error.
AfterPreActions_ParseErrorLate(r) ==
    /\ preLog' = r.log
    /\ IF r.err # NoErr THEN /\ result' = r.err
                             /\ pc' = "done"
       ELSE /\ result' = parseErr
            /\ pc' = "set"

\* The return of invokePreActions (r) in Command.Parse.
AfterPreActions(r) ==
    /\ preLog' = r.log
    /\ IF r.err # NoErr THEN /\ result' = r.err
                             /\ pc' = "done"
       ELSE IF parseErr # NoErr THEN /\ result' = parseErr
                                     /\ pc' = "done"
       ELSE /\ result' = result
            /\ pc' = "set"

\* Command.Parse after parser.Parse: the pre-actions run, and their error, or
\* else the parse error, is returned.
RunPreActions ==
    /\ pc = "pre"
    /\ AfterPreActions(InvokePreActions(context, parsed, cfg.pre, cfg.failing))
    /\ UNCHANGED <<argv, cfg, targs, tnext, context, commands, flags, shortFlags,
                   args, parsed, verbatim, parseErr, store, seen, setLog, actLog,
                   tokLog, tree>>

\* The return of setValues (w) in Command.Parse.
AfterSetValues(w) ==
    /\ store' = w.store
    /\ seen' = w.seen
    /\ setLog' = w.log
    /\ IF w.err # NoErr THEN /\ result' = w.err
                             /\ pc' = "done"
       ELSE /\ result' = result
            /\ pc' = "action"

\* Command.Parse: setValues, whose error is returned.
RunSetValues ==
    /\ pc = "set"
    /\ AfterSetValues(SetValues(context, parsed, store, cfg.required))
    /\ UNCHANGED <<argv, cfg, targs, tnext, context, commands, flags, shortFlags,
                   args, parsed, verbatim, parseErr, preLog, actLog, tokLog,
                   tree>>

\* The command whose Action being set makes Command.Parse call an Action.
ActionGuard(root, ctx) == root

\* Command.Parse on c: "if c.Action != nil { return context.Action(context) }".
\* The call of a nil context.Action is a runtime panic.
RunAction ==
    /\ pc = "action"
    /\ IF ActionGuard("root", context) \notin cfg.actions
       THEN /\ result' = NoErr
            /\ actLog' = actLog
       ELSE IF context \notin cfg.actions
       THEN /\ result' = Panic
            /\ actLog' = actLog
       ELSE /\ result' = NoErr
            /\ actLog' = Append(actLog, [cmd |-> context, ctx |-> context])
    /\ pc' = "done"
    /\ UNCHANGED <<argv, cfg, targs, tnext, context, commands, flags, shortFlags,
                   args, parsed, verbatim, parseErr, store, seen, setLog, preLog,
                   tokLog, tree>>

Next ==
    \/ ParseEOF
    \/ ParseVerbatim
    \/ ParseLong
    \/ ParseShort
    \/ ParseValue
    \/ ParseOther
    \/ RunPreActions
    \/ RunSetValues
    \/ RunAction

-----------------------------------------------------------------------------
(* Construction of the command tree: AddCommands and AddArgs. *)

\* The Commands as &Command{} leaves them: no parent, no commands, no args.
NoTree ==
    [parent   |-> [c \in Commands |-> "nil"],
     commands |-> [c \in Commands |-> <<>>],
     args     |-> [c \in Commands |-> <<>>]]

\* The fields after the declarations of the tests.
DeclaredTree ==
    [parent   |-> [c \in Commands |-> Parent(c)],
     commands |-> [c \in Commands |-> Children(c)],
     args     |-> [c \in Commands |-> ArgsOf(c)]]

RECURSIVE AddCommandsLoop(_, _, _)
\* The loop of c.AddCommands(cmds...) on the fields t: it panics at the
\* first command that is c or has a parent, and what it added stays added.
AddCommandsLoop(t, c, cmds) ==
    IF cmds = <<>> THEN [tree |-> t, panicked |-> FALSE]
    ELSE IF Head(cmds) = c THEN [tree |-> t, panicked |-> TRUE]
    ELSE IF t.parent[Head(cmds)] # "nil" THEN [tree |-> t, panicked |-> TRUE]
    ELSE AddCommandsLoop([t EXCEPT !.parent[Head(cmds)] = c,
                                   !.commands[c] = Append(@, Head(cmds))],
                         c, Tail(cmds))

\* c.AddArgs(as...) on the fields t.
AppendArgs(t, c, as) == [t EXCEPT !.args[c] = @ \o as]

\* The sequences of one to n elements of S.
Some(S, n) == UNION {[1..k -> S] : k \in 1..n}

RECURSIVE Total(_, _)
\* The number of arguments the commands of S have, with the fields t.
Total(t, S) ==
    IF S = {} THEN 0
    ELSE Len(t.args[CHOOSE c \in S : TRUE])
           + Total(t, S \ {CHOOSE c \in S : TRUE})

\* The fields and the outcome after a call that gave r.
Returned(r) ==
    /\ tree' = r.tree
    /\ result' = IF r.panicked THEN Panic ELSE NoErr

\* c.AddCommands(cmds...), whose panic the caller recovers from.
AddCommands ==
    /\ pc = "build"
    /\ \E c \in Commands, cmds \in Some(Commands, MaxAdd) :
          Returned(AddCommandsLoop(tree, c, cmds))
    /\ UNCHANGED <<argv, cfg, targs, tnext, context, commands, flags, shortFlags,
                   args, parsed, verbatim, pc, parseErr, store, seen, setLog,
                   preLog, actLog, tokLog>>

\* c.AddArgs(as...).
AddArgs ==
    /\ pc = "build"
    /\ \E c \in Commands, as \in Some(ArgIds, MaxAdd) :
          /\ Total(tree, Commands) + Len(as) <= MaxDecl
          /\ Returned([tree |-> AppendArgs(tree, c, as), panicked |-> FALSE])
    /\ UNCHANGED <<argv, cfg, targs, tnext, context, commands, flags, shortFlags,
                   args, parsed, verbatim, pc, parseErr, store, seen, setLog,
                   preLog, actLog, tokLog>>

\* The Commands are allocated, nothing is declared and Parse is not called.
InitBuild ==
    /\ tree = NoTree
    /\ pc = "build"
    /\ argv = <<>>
    /\ cfg = [actions |-> {}, required |-> {}, pre |-> {}, failing |-> {},
              defaults |-> <<>>]
    /\ targs = <<>>
    /\ tnext = NoToken
    /\ context = "root"
    /\ commands = EmptyMap
    /\ flags = EmptyMap
    /\ shortFlags = EmptyMap
    /\ args = <<>>
    /\ parsed = <<>>
    /\ verbatim = FALSE
    /\ parseErr = NoErr
    /\ result = NoErr
    /\ store = ZeroStore
    /\ seen = {}
    /\ setLog = <<>>
    /\ preLog = <<>>
    /\ actLog = <<>>
    /\ tokLog = <<>>

\* The two calls change different fields, so each is followed on its own.
SpecCommands == InitBuild /\ [][AddCommands]_vars

SpecArgs == InitBuild /\ [][AddArgs]_vars

-----------------------------------------------------------------------------
(* The call of Parse. *)

\* The argument vectors of at most n strings of V.
Argvs(V, n) == UNION {[1..k -> V] : k \in 0..n}

\* The parser's fields are those of p.
Built(p) ==
    /\ targs = p.targs
    /\ tnext = p.tnext
    /\ context = p.context
    /\ commands = p.commands
    /\ flags = p.flags
    /\ shortFlags = p.shortFlags
    /\ args = p.pargs
    /\ parsed = p.parsed
    /\ verbatim = p.verbatim

\* root.Parse(av) has built its parser for one of the argument vectors AV;
\* nothing is parsed yet.
InitFrom(AV, Cfgs) ==
    /\ argv \in AV
    /\ cfg \in Cfgs
    /\ Built(NewParser("root", argv))
    /\ tree = DeclaredTree
    /\ pc = "parse"
    /\ parseErr = NoErr
    /\ result = NoErr
    /\ store = ZeroStore
    /\ seen = {}
    /\ setLog = <<>>
    /\ preLog = <<>>
    /\ actLog = <<>>
    /\ tokLog = <<>>

\* The same for the argument vectors of at most MaxArgs strings of V.
InitWith(V, Cfgs) == InitFrom(Argvs(V, MaxArgs), Cfgs)

\* The declarations that vary: which commands have an Action, which flags
\* and arguments are Required, which entities have a PreAction and which of
\* these return an error, and which values are declared WithDefault.
Config(actions, required, pre, failing, defaults) ==
    [actions |-> actions, required |-> required, pre |-> pre,
     failing |-> failing, defaults |-> defaults]

\* The declarations of the tests: every command has an Action, nothing is
\* required, --string has the default "def"; --help and sub1 have a
\* PreAction that returns nil.
PlainDefaults == ("string" :> <<Str_default>>)
PlainConfig == Config(Commands, {}, {"help", "sub1"}, {}, PlainDefaults)

\* The argument strings of the model.
A_dashdash == DashDash
A_int == DashDash \o N_int
A_i7 == <<"-", "i", "7">>
A_int_eq_5 == DashDash \o N_int \o <<"=", "5">>
A_5 == <<"5">>
A_x == <<"x">>
A_bool == DashDash \o N_bool
A_b == <<"-", "b">>
A_bool_eq_false == DashDash \o N_bool \o <<"=">> \o Str_false
A_array == DashDash \o N_array
A_a3 == <<"-", "a", "3">>
A_sub1 == N_sub1
A_sub2 == N_sub2
A_sub_sub == N_sub_sub

A_sx == <<"-", "s", "x">>
A_bool_eq_true == DashDash \o N_bool \o <<"=">> \o Str_true
A_bi7 == <<"-", "b", "i", "7">>
A_warn == DashDash \o N_warn

\* Flags of the root: single-valued and aggregate, long and short, joined
\* and separate values; sub2 has a single-valued and an aggregate argument.
VocabFlags ==
    {A_dashdash, A_int, A_i7, A_int_eq_5, A_5, A_x, A_bool, A_sx,
     A_array, A_a3, A_sub2}

InitFlags == InitWith(VocabFlags, {PlainConfig})

SpecFlags == InitFlags /\ [][Next]_vars

-----------------------------------------------------------------------------
(* Repeated flags. *)

\* The parsed entities of option e, in the order they were parsed.
Occurrences(es, e) == SelectSeq(es, LAMBDA x : x.Option = e)

Last(q) == q[Len(q)]

\* What the raw string s denotes for a variable of value v's type.
Denotes(v, s) ==
    IF v.type \in {"int", "ints"} THEN ParseInt(s).val
    ELSE IF v.type = "bool" THEN ParseBool(s).val
    ELSE IF v.type = "negbool" THEN ~ParseBool(s).val
    ELSE s

\* The flags that are neither Boolean nor aggregate.
SingleFlags == {f \in FlagIds : FlagValue(f).type \in {"int", "string"}}

\* Parse has returned nil.
Succeeded == pc = "done" /\ result = NoErr

\* C1: after a successful Parse the variable of a non-Boolean, non-aggregate
\* flag that was given, once or several times, in long or short form, holds
\* the value of its last occurrence; and an argument vector that only repeats
\* --int=5 and -i7 parses without error.
C1_LastOccurrenceWins ==
    /\ Succeeded =>
         \A f \in SingleFlags :
            Occurrences(parsed, f) # <<>> =>
               store[FlagValue(f).var]
                 = Denotes(FlagValue(f), Last(Occurrences(parsed, f)).Value)
    /\ (pc = "done" /\ argv # <<>>
          /\ \A k \in DOMAIN argv : argv[k] \in {A_int_eq_5, A_i7}) =>
         /\ result = NoErr
         /\ store.i = IF Last(argv) = A_i7 THEN 7 ELSE 5

\* C1: -i7 --int 5 has parsed, and the value of -i7 was overridden.
C1_Witness ==
    /\ Succeeded
    /\ argv = <<A_i7, A_int, A_5>>
    /\ Len(Occurrences(parsed, "int")) = 2
    /\ store.i = 5

-----------------------------------------------------------------------------
(* Aggregate flags and arguments. *)

\* The flags and arguments whose value is an aggregate.
Aggregates == {e \in FlagIds \cup ArgIds : IsAggregate(EntityValue(e))}

\* The Value fields of the entities es, each as v's type denotes it.
DenotedValues(v, es) == [k \in DOMAIN es |-> Denotes(v, es[k].Value)]

\* C2: after a successful Parse the list of an aggregate flag or argument
\* holds the values of all its occurrences, in the order they were given.
C2_AggregateKeepsAll ==
    Succeeded =>
       \A e \in Aggregates :
          /\ Len(store[EntityValue(e).var]) = Len(Occurrences(parsed, e))
          /\ store[EntityValue(e).var]
               = DenotedValues(EntityValue(e), Occurrences(parsed, e))

-----------------------------------------------------------------------------
(* Boolean flags. *)

\* Boolean flags, long and short, alone, joined with a value and in a
\* cluster of short flags, with argument strings of every kind after them.
VocabBool ==
    {A_dashdash, A_bool, A_b, A_bool_eq_false, A_bool_eq_true, A_bi7,
     A_warn, A_int, A_5, A_x, A_sub2}

InitBool == InitWith(VocabBool, {PlainConfig})

SpecBool == InitBool /\ [][Next]_vars

\* The flag a flag token names in the current context ("nil": none).
FlagOf(tok) ==
    IF tok.Type = tokenLong /\ tok.Value \in DOMAIN flags THEN flags[tok.Value]
    ELSE IF tok.Type = tokenShort /\ tok.Value \in DOMAIN shortFlags
    THEN shortFlags[tok.Value]
    ELSE "nil"

\* The next turn of the loop reads a token that names a Boolean flag.
AtBooleanFlag ==
    /\ pc = "parse"
    /\ FlagOf(NextToken) # "nil"
    /\ IsBoolean(FlagValue(FlagOf(NextToken)))

\* The text after the first "=" of the argument string s.
AfterEquals(s) == From(s, IndexOf(s, "="))

\* The turn of the loop resolves flag f to value v, with no error.
Resolves(f, v) ==
    /\ parsed' = Append(parsed, Entity(f, TokenString(NextToken), v))
    /\ parseErr' = NoErr

\* C3: a Boolean flag read from a whole argument string that has no "="
\* resolves to "true" and leaves the argument strings after its own
\* untouched; read from a cluster of short flags it resolves to "true" and
\* leaves the rest of the cluster on deck; read from "--flag=v" it resolves
\* to v.  After a successful Parse the variable is what the last resolution's
\* value denotes: --flag=false gives false, --flag and --flag=true give true.
C3_BooleanFlag ==
    /\ [][AtBooleanFlag =>
            IF tnext # NoToken
            THEN /\ Resolves(FlagOf(NextToken), Str_true)
                 /\ targs' = targs
                 /\ tnext' = TokNext(targs, tnext, verbatim).next
            ELSE IF IndexOf(Head(targs), "=") > 0 /\ NextToken.Type = tokenLong
            THEN /\ Resolves(FlagOf(NextToken), AfterEquals(Head(targs)))
                 /\ targs' = Tail(targs)
            ELSE /\ Resolves(FlagOf(NextToken), Str_true)
                 /\ targs' = Tail(targs)
                 /\ tnext' = TokNext(targs, tnext, verbatim).next]_vars
    /\ [](Succeeded /\ Occurrences(parsed, "bool") # <<>> =>
            /\ Last(Occurrences(parsed, "bool")).Value = Str_true
                 => store.b = TRUE
            /\ Last(Occurrences(parsed, "bool")).Value = Str_false
                 => store.b = FALSE)

\* C3: --bool sub2 --bool=false has parsed: sub2 after --bool was read as
\* the command, and the variable is false.
C3_Witness ==
    /\ Succeeded
    /\ argv = <<A_bool, A_sub2, A_bool_eq_false>>
    /\ context = "sub2"
    /\ Len(Occurrences(parsed, "bool")) = 2
    /\ Occurrences(parsed, "bool")[1].Value = Str_true
    /\ store.b = FALSE

-----------------------------------------------------------------------------
(* Long flags whose name begins with "no-". *)

Str_no == <<"n", "o", "-">>
A_no_bool == DashDash \o Str_no \o N_bool
A_no_int == DashDash \o Str_no \o N_int
A_no_flag == DashDash \o Str_no \o N_flag
A_no_warn == DashDash \o N_no_warn

\* "no-" before the name of a Boolean flag, of a flag that is not Boolean, of
\* a flag of a command not yet matched, and the declared flag --no-warn.
VocabNeg ==
    {A_dashdash, A_no_bool, A_no_int, A_no_flag, A_no_warn, A_warn, A_bool,
     A_b, A_int_eq_5, A_x, A_sub1}

InitNeg == InitWith(VocabNeg, {PlainConfig})

SpecNeg == InitNeg /\ [][Next]_vars

\* The next turn of the loop reads a long flag token "no-X".
AtNegated ==
    /\ pc = "parse"
    /\ NextToken.Type = tokenLong
    /\ HasPrefix(NextToken.Value, Str_no)

\* The turn of the loop records a resolution of flag f with value v.
Records(f, v) ==
    /\ Len(parsed') = Len(parsed) + 1
    /\ Last(parsed').Option = f
    /\ Last(parsed').Value = v
    /\ parseErr' = NoErr

\* C4: a long flag token "no-X" that names a visible flag resolves to that
\* flag; or else, when X names a visible Boolean flag, it resolves to X with
\* the value "false"; or else Parse fails with the unknown-flag error.
C4_NegatedForm ==
    [][AtNegated =>
         IF NextToken.Value \in DOMAIN flags
         THEN Len(parsed') = Len(parsed) + 1
              /\ Last(parsed').Option = flags[NextToken.Value]
         ELSE IF /\ From(NextToken.Value, 3) \in DOMAIN flags
                 /\ IsBoolean(FlagValue(flags[From(NextToken.Value, 3)]))
         THEN Records(flags[From(NextToken.Value, 3)], Str_false)
         ELSE parseErr'.kind = E_unknownFlag]_vars

-----------------------------------------------------------------------------
(* Long flags joined to their value with "=". *)

A_string_ab == DashDash \o N_string \o <<"=", "a", "=", "b">>
A_string_sub2 == DashDash \o N_string \o <<"=">> \o N_sub2
A_string_empty == DashDash \o N_string \o <<"=">>
A_string_dd == DashDash \o N_string \o <<"=">> \o DashDash
A_flag_eq_7 == DashDash \o N_flag \o <<"=", "7">>

\* Joined values that contain "=", name a command, are empty or are "--";
\* --flag is visible only once sub1 is the context.
VocabJoin ==
    {A_dashdash, A_string_ab, A_string_sub2, A_string_empty, A_string_dd,
     A_int_eq_5, A_flag_eq_7, A_i7, A_x, A_sub1, A_sub2}

InitJoin == InitWith(VocabJoin, {PlainConfig})

SpecJoin == InitJoin /\ [][Next]_vars

\* The text between "--" and the first "=" of the next argument string, and
\* the text after that "=".
JoinedName == SubSeq(Head(targs), 3, IndexOf(Head(targs), "=") - 1)
JoinedValue == AfterEquals(Head(targs))

\* The next argument string is read in token position and is "--x=y" with x
\* the name of a visible flag that has a value and is not Boolean.
AtJoined ==
    /\ pc = "parse"
    /\ ~verbatim
    /\ tnext = NoToken
    /\ targs # <<>>
    /\ HasPrefix(Head(targs), DashDash)
    /\ IndexOf(Head(targs), "=") > 0
    /\ JoinedName \in DOMAIN flags
    /\ FlagValue(flags[JoinedName]) # NoValue
    /\ ~IsBoolean(FlagValue(flags[JoinedName]))

\* The parser with "--x", "y" in the place of the next argument string.
Separated ==
    [Parser EXCEPT !.targs = <<DashDash \o JoinedName, JoinedValue>> \o Tail(targs)]

\* C5: reading "--x=y" (the flag, then the value left on deck) leaves the
\* parser as reading "--x", "y" does: one more resolution, of flag x with the
\* text after the first "=" as its value, and the context, the positional
\* queue, the verbatim mode and the argument strings after it untouched.
\* The rest of Parse is a function of these fields.
C5_JoinedAsSeparate ==
    AtJoined =>
       /\ LoopBody(LoopBody(Parser)) = LoopBody(Separated)
       /\ LoopBody(LoopBody(Parser))
            = [Parser EXCEPT
                 !.targs = Tail(targs),
                 !.parsed = Append(parsed, Entity(flags[JoinedName],
                                                  DashDash \o JoinedName,
                                                  JoinedValue))]

\* C5: --string=sub2 --string=a=b has parsed; the context is still the root
\* and the variable is "a=b".
C5_Witness ==
    /\ Succeeded
    /\ argv = <<A_string_sub2, A_string_ab>>
    /\ context = "root"
    /\ Len(parsed) = 2
    /\ store.s = <<"a", "=", "b">>

-----------------------------------------------------------------------------
(* Commands, positional arguments and verbatim mode. *)

\* Command names, values that name no command, "--" and flags of every
\* form, for the root (which declares a positional argument and has
\* children), sub1 (children, no arguments), sub2 and sub-sub (arguments, no
\* children).
VocabCmds ==
    {A_dashdash, A_sub1, A_sub2, A_sub_sub, A_5, A_x, A_flag_eq_7, A_b,
     A_bool, A_int, A_i7}

InitCmds == InitWith(VocabCmds, {PlainConfig})

SpecCmds == InitCmds /\ [][Next]_vars

\* The child of command c that s names ("nil": none).
ChildNamed(c, s) ==
    IF \E k \in DOMAIN Children(c) : CmdName(Children(c)[k]) = s
    THEN Children(c)[CHOOSE k \in DOMAIN Children(c) : CmdName(Children(c)[k]) = s]
    ELSE "nil"

\* The command that declares argument a.
DeclaredOn(a) == CHOOSE c \in Commands : \E k \in DOMAIN ArgsOf(c) : ArgsOf(c)[k] = a

\* The next turn of the loop reads a positional value while the context has
\* children.
AtValueWithChildren ==
    /\ pc = "parse"
    /\ NextToken.Type = tokenValue
    /\ Children(context) # <<>>

\* C6: while the context has children, a positional value that names one of
\* them makes that child the context (recorded as the command, the child's
\* arguments becoming the positional queue), and any other value is the
\* not-a-command error, with nothing recorded; no argument of a command that
\* has children is ever resolved.
C6_CommandsBeforeArgs ==
    /\ [][AtValueWithChildren =>
            IF ChildNamed(context, NextToken.Value) # "nil"
            THEN /\ context' = ChildNamed(context, NextToken.Value)
                 /\ args' = ArgsOf(context')
                 /\ parsed' = Append(parsed, Entity(context', CmdName(context'),
                                                    NextToken.Value))
                 /\ parseErr' = NoErr
            ELSE /\ parseErr'.kind = E_notCommand
                 /\ parsed' = parsed
                 /\ context' = context
                 /\ args' = args]_vars
    /\ [](\A k \in DOMAIN parsed :
            parsed[k].Option \in ArgIds
              => Children(DeclaredOn(parsed[k].Option)) = <<>>)

\* C6: sub1 x has failed: x names no child of sub1, and the root's own
\* positional argument received neither sub1 nor x.
C6_Witness ==
    /\ pc = "done"
    /\ argv = <<A_sub1, A_x>>
    /\ context = "sub1"
    /\ result.kind = E_notCommand
    /\ Occurrences(parsed, "root-arg") = <<>>
    /\ Len(parsed) = 1

\* The next turn of the loop reads an argument string in verbatim mode.
AtVerbatimString == pc = "parse" /\ verbatim /\ targs # <<>>

\* C7: only reading "--" as a token turns verbatim mode on, and it then stays
\* on; that turn records nothing and leaves the context and the positional
\* queue as they were; in verbatim mode there is no token on deck, every
\* argument string, whatever it begins with, is read whole as a positional
\* value, and no resolution of a flag is recorded.
C7_VerbatimStays ==
    /\ [][verbatim => verbatim']_vars
    /\ [][~verbatim /\ verbatim' => NextToken = Token(tokenVerbatim, DashDash)]_vars
    /\ [][pc = "parse" /\ NextToken.Type = tokenVerbatim =>
            /\ verbatim'
            /\ parsed' = parsed
            /\ args' = args
            /\ context' = context
            /\ parseErr' = NoErr]_vars
    /\ [](verbatim => tnext = NoToken)
    /\ [][AtVerbatimString =>
            /\ NextToken = Token(tokenValue, Head(targs))
            /\ targs' = Tail(targs)
            /\ tnext' = NoToken
            /\ \/ parsed' = parsed
               \/ /\ Len(parsed') = Len(parsed) + 1
                  /\ Last(parsed').Option \notin FlagIds
                  /\ Last(parsed').Value = Head(targs)]_vars

\* C7: sub2 -- -- has been parsed: the second "--" is the value of sub2's
\* first argument, and "--" itself recorded nothing.
C7_Witness ==
    /\ pc = "pre"
    /\ parseErr = NoErr
    /\ argv = <<A_sub2, A_dashdash, A_dashdash>>
    /\ verbatim
    /\ Len(parsed) = 2
    /\ Last(parsed) = Entity("num", N_num, DashDash)

-----------------------------------------------------------------------------
(* The Action of the final context. *)

\* Which commands have an Action: all, the root alone, sub2 alone, both, none.
ActionSets == {Commands, {"root"}, {"sub2"}, {"root", "sub2"}, {}}

ConfigsActs == {Config(a, {}, {"help", "sub1"}, {}, PlainDefaults) : a \in ActionSets}

VocabActs == {A_dashdash, A_sub1, A_sub2, A_int_eq_5, A_b, A_x, A_5}

InitActs == InitWith(VocabActs, ConfigsActs)

SpecActs == InitActs /\ [][Next]_vars

\* Parse came to the end of value application without an error.
ValuesApplied == pc = "done" /\ result \in {NoErr, Panic}

\* C8: when Parse is done, the Actions invoked are: the Action of the final
\* context, once and with the final context, if the parse and the value
\* application succeeded and that command has an Action; none otherwise.
C8_FinalContextAction ==
    pc = "done" =>
       actLog = IF ValuesApplied /\ context \in cfg.actions
                THEN <<[cmd |-> context, ctx |-> context]>>
                ELSE <<>>

-----------------------------------------------------------------------------
(* Required flags and arguments. *)

A_int_eq_x == DashDash \o N_int \o <<"=", "x">>
A_help == DashDash \o N_help

\* A default that strconv.ParseBool rejects, on the root's flag --warn.
BadDefaults == ("warn" :> <<<<"x">>>>)

\* Required flags and arguments of the root, of sub1 and of sub2, one and
\* two at a time; a PreAction of --help that fails; a default that fails on
\* a flag visited before the required one.
ConfigsReq ==
    {Config(Commands, {"int"}, {"help", "sub1"}, {}, PlainDefaults),
     Config(Commands, {"flag"}, {"help", "sub1"}, {"help"}, PlainDefaults),
     Config(Commands, {"int", "num"}, {"help", "sub1"}, {}, PlainDefaults),
     Config(Commands, {"flag"}, {"help", "sub1"}, {}, BadDefaults),
     Config(Commands, {"root-arg"}, {"help", "sub1"}, {}, PlainDefaults),
     Config(Commands, {}, {"help", "sub1"}, {}, PlainDefaults)}

VocabReq ==
    {A_dashdash, A_int_eq_5, A_int_eq_x, A_help, A_flag_eq_7, A_b, A_5,
     A_sub1, A_sub2}

InitReq == InitWith(VocabReq, ConfigsReq)

SpecReq == InitReq /\ [][Next]_vars

RECURSIVE ChainOrder(_)
\* The flags and then the arguments of the commands from the root down to c.
ChainOrder(c) ==
    IF c = "nil" THEN <<>>
    ELSE ChainOrder(Parent(c)) \o FlagsOf(c) \o ArgsOf(c)

\* Entity e received no resolution.
Unresolved(e) == Occurrences(parsed, e) = <<>>

\* Set of value v accepts the string s.
Accepts(v, s) ==
    CASE v.type = "int" -> ParseInt(s).ok
      [] v.type \in {"bool", "negbool"} -> ParseBool(s).ok
      [] OTHER -> TRUE

\* A PreAction of a parsed entity returns an error.
PreActionFails ==
    \E k \in DOMAIN parsed : parsed[k].Option \in cfg.pre \cap cfg.failing

\* The Set of a parsed flag or argument rejects its value.
SetFails ==
    \E k \in DOMAIN parsed :
       /\ parsed[k].Option \in FlagIds \cup ArgIds
       /\ EntityValue(parsed[k].Option) # NoValue
       /\ ~Accepts(EntityValue(parsed[k].Option), parsed[k].Value)

\* Entity e has a default that its Set rejects.
DefaultFails(e) ==
    /\ EntityValue(e).wrapped
    /\ \E k \in DOMAIN EntityValue(e).defaults :
          ~Accepts(EntityValue(e), EntityValue(e).defaults[k])

\* Value application ends at entity e, if it comes that far.
Stops(e) == Unresolved(e) /\ (e \in cfg.required \/ DefaultFails(e))

RECURSIVE FirstStop(_)
\* The first entity of q that value application ends at ("nil": none).
FirstStop(q) ==
    IF q = <<>> THEN "nil"
    ELSE IF Stops(Head(q)) THEN Head(q)
    ELSE FirstStop(Tail(q))

MissingKinds == {E_missingFlag, E_missingArg}

\* The missing-required error that names entity e.
Missing(e) ==
    IF e \in FlagIds THEN Err(E_missingFlag, DashDash \o FlagName(e), Empty)
    ELSE Err(E_missingArg, Arg(e).Name, Empty)

\* The required entities on the final context and its ancestors that
\* received no resolution.
MissingRequired ==
    {e \in cfg.required :
       Unresolved(e) /\ \E k \in DOMAIN ChainOrder(context) : ChainOrder(context)[k] = e}

\* C9 as stated: when the resolution phase has succeeded, Parse returns a
\* missing-required error, naming one of them, and invokes no Action if some
\* required entity of the final context or of an ancestor is unresolved, and
\* returns no missing-required error if there is none.
C9_AsStated ==
    pc = "done" /\ parseErr = NoErr =>
       IF MissingRequired # {}
       THEN (\E e \in MissingRequired : result = Missing(e)) /\ actLog = <<>>
       ELSE result.kind \notin MissingKinds

\* C9, amended: Parse returns a missing-required error exactly when the
\* resolution phase succeeded, no PreAction failed, every parsed value was
\* accepted by its Set, and the first unresolved entity, in the order root to
\* final context and flags before arguments, that is required or has a
\* default its Set rejects is a required one; the error names that entity,
\* and no Action is invoked.
C9_MissingRequired ==
    pc = "done" =>
       IF /\ parseErr = NoErr
          /\ ~PreActionFails
          /\ ~SetFails
          /\ FirstStop(ChainOrder(context)) \in cfg.required
       THEN /\ result = Missing(FirstStop(ChainOrder(context)))
            /\ actLog = <<>>
       ELSE result.kind \notin MissingKinds

\* C9: sub2 --int=5 has parsed where --int and num are required; --int was
\* given, and the error names num.
C9_Witness ==
    /\ pc = "done"
    /\ cfg.required = {"int", "num"}
    /\ argv = <<A_sub2, A_int_eq_5>>
    /\ result = Err(E_missingArg, N_num, Empty)
    /\ actLog = <<>>

-----------------------------------------------------------------------------
(* Defaults. *)

A_int_eq_0 == DashDash \o N_int \o <<"=", "0">>

\* Defaults on flags and arguments of the root, sub1, sub2 and sub-sub, one
\* and two strings long.
ManyDefaults ==
    ("string" :> <<Str_default>>) @@ ("int" :> <<<<"5">>>>)
      @@ ("flag" :> <<<<"7">>>>) @@ ("arg" :> <<<<"x">>>>)
      @@ ("array" :> <<<<"1">>, <<"2">>>>) @@ ("num" :> <<<<"3">>>>)

\* A default that strconv.ParseInt rejects, before a default that is fine.
MixedDefaults == ("int" :> <<<<"x">>>>) @@ ("string" :> <<Str_default>>)

ConfigsDef ==
    {Config(Commands, {}, {"help", "sub1"}, {}, d) :
       d \in {PlainDefaults, ManyDefaults, MixedDefaults}}

\* Values that are the zero value of their variable (--string=, --int=0),
\* values that are not, and the commands.
VocabDef ==
    {A_dashdash, A_string_empty, A_int_eq_0, A_a3, A_flag_eq_7, A_sub1,
     A_sub2, A_sub_sub, A_x, A_5}

InitDef == InitWith(VocabDef, ConfigsDef)

SpecDef == InitDef /\ [][Next]_vars

\* The flags and arguments declared with defaults.
WithDefaults == DOMAIN cfg.defaults

\* The strings Set was called with for the defaults of entity e.
DefaultsSet(e) ==
    [k \in DOMAIN SelectSeq(setLog, LAMBDA c : c.entity = e /\ c.default)
       |-> SelectSeq(setLog, LAMBDA c : c.entity = e /\ c.default)[k].value]

\* Entity e is declared on the final context or on one of its ancestors.
OnChain(e) == \E k \in DOMAIN ChainOrder(context) : ChainOrder(context)[k] = e

-----------------------------------------------------------------------------
(* The flags that can be resolved in a context. *)

RECURSIVE PathTo(_)
\* The commands from the root down to c.
PathTo(c) == IF c = "nil" THEN {} ELSE PathTo(Parent(c)) \cup {c}

\* The flags declared on the commands from the root down to c.
FlagsOnPath(c) ==
    {f \in FlagIds : \E d \in PathTo(c) : \E k \in DOMAIN FlagsOf(d) : FlagsOf(d)[k] = f}

\* The flag on the path to c with the long name s, or the short name s.
PathFlagNamed(c, s) == {f \in FlagsOnPath(c) : FlagName(f) = s}
PathFlagShort(c, s) == {f \in FlagsOnPath(c) : FlagShort(f) = s}

\* C11: the long and the short names the parser resolves are at every point
\* exactly those of the flags declared on the commands from the root down to
\* the current context, each name resolving to a flag of that name declared
\* there; a long or short flag
\* token with any other name, be it that of a flag of a sibling or of a
\* command entered only later, is the unknown-flag error, and a token with
\* one of these names is not.
C11_FlagsOfPath ==
    /\ [](/\ DOMAIN flags
               = {FlagName(f) : f \in {g \in FlagsOnPath(context) : FlagName(g) # Empty}}
          /\ DOMAIN shortFlags
               = {FlagShort(f) : f \in {g \in FlagsOnPath(context) : FlagShort(g) # Empty}}
          /\ \A n \in DOMAIN flags : flags[n] \in PathFlagNamed(context, n)
          /\ \A n \in DOMAIN shortFlags : shortFlags[n] \in PathFlagShort(context, n))
    /\ [][pc = "parse" /\ NextToken.Type = tokenLong =>
            IF PathFlagNamed(context, NextToken.Value) = {}
            THEN /\ parseErr' = Err(E_unknownFlag, NextToken.Value, Empty)
                 /\ parsed' = parsed
            ELSE parseErr'.kind # E_unknownFlag]_vars
    /\ [][pc = "parse" /\ NextToken.Type = tokenShort =>
            IF PathFlagShort(context, NextToken.Value) = {}
            THEN /\ parseErr' = Err(E_unknownFlag, NextToken.Value, Empty)
                 /\ parsed' = parsed
            ELSE parseErr'.kind # E_unknownFlag]_vars

\* C11: sub1 sub-sub -i7 has parsed: the root's flag was accepted two
\* subcommand switches down.
C11_Witness ==
    /\ Succeeded
    /\ argv = <<A_sub1, A_sub_sub, A_i7>>
    /\ context = "sub-sub"
    /\ store.i = 7

-----------------------------------------------------------------------------
(* Pre-actions. *)

\* A PreAction on a valueless flag, a valued flag, a command and an
\* argument; none, one or two of them return an error.
PreSet == {"help", "int", "sub1", "num"}

ConfigsPre ==
    {Config(Commands, {}, PreSet, f, PlainDefaults) :
       f \in {{}, {"help"}, {"sub1"}, {"help", "sub1"}}}

\* Flags, commands and arguments with a PreAction, and strings the parser
\* fails on at the root (x, --flag=7) and elsewhere (x, --flag=7 under sub2).
VocabPre ==
    {A_dashdash, A_help, A_sub1, A_sub2, A_int_eq_5, A_5, A_b, A_x, A_flag_eq_7}

InitPre == InitWith(VocabPre, ConfigsPre)

SpecPre == InitPre /\ [][Next]_vars

\* The parsed entities that have a PreAction, in the order they were parsed.
PreEntities == SelectSeq(parsed, LAMBDA e : e.Option \in cfg.pre)

\* The index in PreEntities of the first whose PreAction returns an error,
\* or 0.
FirstFailing ==
    IF \E k \in DOMAIN PreEntities : PreEntities[k].Option \in cfg.failing
    THEN CHOOSE k \in DOMAIN PreEntities :
            /\ PreEntities[k].Option \in cfg.failing
            /\ \A j \in 1..(k - 1) : PreEntities[j].Option \notin cfg.failing
    ELSE 0

\* The pre-actions that are due: those of PreEntities, up to the first that
\* returns an error.
PreDue ==
    IF FirstFailing = 0 THEN PreEntities ELSE SubSeq(PreEntities, 1, FirstFailing)

\* The pre-actions have been invoked.
PreActionsDone == pc \in {"set", "action", "done"}

-----------------------------------------------------------------------------
(* The operand of a flag. *)

A_dash == Dash
A_i == <<"-", "i">>
A_string == DashDash \o N_string
A_m12 == <<"-", "1", "2">>
A_bi == <<"-", "b", "i">>

\* The declarations of the tests, and the same with a PreAction on --bool
\* that returns an error.
ConfigsOperand ==
    {PlainConfig, Config(Commands, {}, {"bool"}, {"bool"}, PlainDefaults)}

\* Valued flags without a joined value, long, short and last in a cluster,
\* and operands that look like a negative number, a flag, "-" and "--".
VocabOperand ==
    {A_dashdash, A_dash, A_int, A_i, A_string, A_m12, A_bool, A_bi,
     A_int_eq_5, A_x, A_sub1}

InitOperand == InitWith(VocabOperand, ConfigsOperand)

SpecOperand == InitOperand /\ [][Next]_vars

\* The flag token t as it was written: "--name" or "-c".
AsWritten(t) == IF t.Type = tokenLong THEN DashDash \o t.Value ELSE Dash \o t.Value

\* The next turn of the loop reads a token that names a flag with a value
\* that is not Boolean, and nothing is joined to it: no value after "=" and
\* no rest of a short cluster is on deck behind it.
AtBareValuedFlag ==
    /\ pc = "parse"
    /\ FlagOf(NextToken) # "nil"
    /\ FlagValue(FlagOf(NextToken)) # NoValue
    /\ ~IsBoolean(FlagValue(FlagOf(NextToken)))
    /\ TokNext(targs, tnext, verbatim).next = NoToken

\* The argument strings left once the next token has been read.
Behind == TokNext(targs, tnext, verbatim).args

\* C14: a flag with a non-Boolean value, read with nothing joined to it and
\* no argument string after it, ends the parse with the requires-a-value
\* error naming the flag as written, and records nothing; Parse then returns
\* this error, or that of a pre-action in its place, and has made no Set
\* call, changed no variable and invoked no Action.
C14_MissingOperand ==
    /\ [][AtBareValuedFlag /\ Behind = <<>> =>
            /\ parseErr' = Err(E_requires, AsWritten(NextToken), Empty)
            /\ parsed' = parsed
            /\ pc' = "pre"]_vars
    /\ [](pc = "done" /\ parseErr.kind = E_requires =>
            /\ result = IF FirstFailing = 0 THEN parseErr
                        ELSE Err(E_preAction, PreEntities[FirstFailing].Name, Empty)
            /\ setLog = <<>>
            /\ store = ZeroStore
            /\ actLog = <<>>)

\* C14: -bi has failed: i, last in the cluster, has no operand.
C14_Witness ==
    /\ pc = "done"
    /\ cfg = PlainConfig
    /\ argv = <<A_bi>>
    /\ Len(parsed) = 1
    /\ result = Err(E_requires, A_i, Empty)

\* C15: a flag with a non-Boolean value, read with nothing joined to it,
\* takes the whole next argument string as its value: one resolution, of the
\* flag as written with that string, is recorded, the string is gone from
\* the tokenizer with nothing left on deck, and the verbatim mode, the
\* context and the positional queue are as before.
C15_OperandTakenWhole ==
    [][AtBareValuedFlag /\ Behind # <<>> =>
         /\ parsed' = Append(parsed, Entity(FlagOf(NextToken), AsWritten(NextToken),
                                            Head(Behind)))
         /\ targs' = Tail(Behind)
         /\ tnext' = NoToken
         /\ verbatim' = verbatim
         /\ context' = context
         /\ args' = args
         /\ commands' = commands
         /\ parseErr' = NoErr]_vars

\* C15: --string -- --int=5 has parsed: "--" is the value of --string and
\* did not turn verbatim mode on, so --int=5 was read as a flag.
C15_Witness ==
    /\ pc = "pre"
    /\ parseErr = NoErr
    /\ cfg = PlainConfig
    /\ ~verbatim
    /\ argv = <<A_string, A_dashdash, A_int_eq_5>>
    /\ parsed = <<Entity("string", A_string, DashDash), Entity("int", A_int, A_5)>>

-----------------------------------------------------------------------------
(* Values that name no command. *)

\* The names of the commands from the root down to c, joined by spaces (the
\* tree is two levels deep).
QualifiedName(c) ==
    IF Parent(c) = "nil" THEN CmdName(c)
    ELSE IF Parent(Parent(c)) = "nil"
    THEN CmdName(Parent(c)) \o <<" ">> \o CmdName(c)
    ELSE CmdName(Parent(Parent(c))) \o <<" ">> \o CmdName(Parent(c))
             \o <<" ">> \o CmdName(c)

\* The command matched last among the resolutions es, or the root.
LastMatched(es) ==
    IF \E k \in DOMAIN es : es[k].Option \in Commands
    THEN es[CHOOSE k \in DOMAIN es :
                /\ es[k].Option \in Commands
                /\ \A j \in DOMAIN es : es[j].Option \in Commands => j <= k].Option
    ELSE "root"

\* C16: while the context has children, a positional value that names none
\* of them ends the parse with the not-a-command error naming the context's
\* full name, a space and the value, and the context stays the command
\* matched last.
C16_NotACommand ==
    /\ [][AtValueWithChildren /\ ChildNamed(context, NextToken.Value) = "nil" =>
            /\ parseErr' = Err(E_notCommand,
                               QualifiedName(context) \o <<" ">> \o NextToken.Value,
                               Empty)
            /\ context' = context
            /\ pc' = "pre"]_vars
    /\ [](parseErr.kind = E_notCommand => context = LastMatched(parsed))

\* C16: --bool sub1 5 has failed: "root sub1 5" is not a command, and the
\* context is sub1.
C16_Witness ==
    /\ pc = "done"
    /\ argv = <<A_bool, A_sub1, A_5>>
    /\ context = "sub1"
    /\ result = Err(E_notCommand, CmdName("root") \o <<" ">> \o A_sub1 \o <<" ">> \o A_5,
                    Empty)

-----------------------------------------------------------------------------
(* Flags without a Value. *)

A_h == <<"-", "h">>
A_hb == <<"-", "h", "b">>
A_hx == <<"-", "h", "x">>
A_help_eq_x == DashDash \o N_help \o <<"=", "x">>

\* The declarations of the tests, and the same with --help required.
ConfigsMarker ==
    {PlainConfig, Config(Commands, {"help"}, {}, {}, PlainDefaults)}

\* --help long, short, first in a cluster and with "=value"; strings that
\* may follow it.
VocabMarker ==
    {A_dashdash, A_help, A_h, A_hb, A_hx, A_help_eq_x, A_x, A_sub1,
     A_int_eq_5, A_b}

InitMarker == InitWith(VocabMarker, ConfigsMarker)

SpecMarker == InitMarker /\ [][Next]_vars

\* The next turn of the loop reads a token that names a flag without a Value.
AtMarkerFlag ==
    /\ pc = "parse"
    /\ FlagOf(NextToken) # "nil"
    /\ FlagValue(FlagOf(NextToken)) = NoValue

\* What the tokenizer has on deck once the next token has been read.
OnDeck == TokNext(targs, tnext, verbatim).next

\* C17: a flag without a Value that is given "=value" ends the parse with
\* the does-not-accept-a-value error and records nothing; otherwise it is
\* recorded with an empty value, only the argument string it was read from
\* is consumed, and the rest of its short cluster stays on deck and is read
\* next as a short flag.  When the values are applied a parsed --help is
\* marked seen without a Set call, so it is not reported missing.
C17_MarkerFlag ==
    /\ [][AtMarkerFlag =>
            IF OnDeck # NoToken /\ OnDeck.Type = tokenAssigned
            THEN /\ parseErr' = Err(E_noValue, AsWritten(NextToken), OnDeck.Value)
                 /\ parsed' = parsed
            ELSE /\ parseErr' = NoErr
                 /\ parsed' = Append(parsed, Entity(FlagOf(NextToken),
                                                    AsWritten(NextToken), Empty))
                 /\ targs' = IF tnext = NoToken THEN Tail(targs) ELSE targs
                 /\ tnext' = OnDeck
                 /\ OnDeck # NoToken =>
                       /\ OnDeck.Type = tokenRemainder
                       /\ NextToken' = Token(tokenShort, <<Head(OnDeck.Value)>>)]_vars
    /\ [](pc = "done" /\ ~Unresolved("help") =>
            /\ result # Missing("help")
            /\ \A k \in DOMAIN setLog : setLog[k].entity # "help"
            /\ parseErr = NoErr /\ ~SetFails => "help" \in seen)

\* C17: -hb sub1 has been applied where --help is required: b was read from
\* the cluster as a flag of its own, sub1 was left to be read as a command,
\* and --help is seen.
C17_Witness ==
    /\ pc = "done"
    /\ cfg.required = {"help"}
    /\ argv = <<A_hb, A_sub1>>
    /\ result = NoErr
    /\ "help" \in seen
    /\ store.b = TRUE
    /\ context = "sub1"

-----------------------------------------------------------------------------
(* The command tree under construction. *)

\* The commands whose list of children holds c.
ParentsOf(c) == {d \in Commands : \E k \in DOMAIN tree.commands[d] : tree.commands[d][k] = c}

\* The places of c in the list of children of d.
PlacesIn(d, c) == {k \in DOMAIN tree.commands[d] : tree.commands[d][k] = c}

RECURSIVE Up(_, _)
\* The command n Parent() calls above c, or "nil".
Up(c, n) ==
    IF n = 0 \/ c = "nil" THEN c ELSE Up(tree.parent[c], n - 1)

\* Following Parent() from c comes to a command without a parent.
Rooted(c) == Up(c, Cardinality(Commands)) = "nil"

\* Every command is a child of its parent and of no other command, once.
OneParent ==
    \A c \in Commands :
       /\ ParentsOf(c) = IF tree.parent[c] = "nil" THEN {} ELSE {tree.parent[c]}
       /\ \A d \in ParentsOf(c) : Cardinality(PlacesIn(d, c)) = 1

\* C18: a command has at most one parent and is in that parent's list of
\* children once, and following Parent() from any command comes to a command
\* without a parent.
C18_TreeInvariant == OneParent /\ \A c \in Commands : Rooted(c)

\* C19: in the list of arguments of a command no argument comes after one
\* whose Value is an aggregate.
C19_AggregateLast ==
    \A c \in Commands : \A k \in DOMAIN tree.args[c] :
       IsAggregate(Arg(tree.args[c][k]).Value) => k = Len(tree.args[c])

-----------------------------------------------------------------------------
(* Positional arguments. *)

\* The commands, values for their arguments, a flag and "--".
VocabPositional ==
    {A_dashdash, A_sub1, A_sub2, A_sub_sub, A_5, A_x, A_int_eq_5, A_b}

\* The argument vectors of the vocabulary, and sub2 with MaxArgs values:
\* the aggregate of sub2 receives more than one.
ArgvsPositional ==
    Argvs(VocabPositional, MaxArgs)
      \cup {<<A_sub2>> \o w : w \in [1..MaxArgs -> {A_5, A_x}]}

InitPositional == InitFrom(ArgvsPositional, {PlainConfig})

SpecPositional == InitPositional /\ [][Next]_vars

\* The next turn of the loop reads a positional value in a context without
\* children whose queue is not empty.
AtValueInLeaf ==
    /\ pc = "parse"
    /\ NextToken.Type = tokenValue
    /\ Children(context) = <<>>
    /\ args # <<>>

IsArgument(e) == e.Option \in ArgIds

IsCommand(e) == e.Option \in Commands

IsValueToken(t) == t.Type = tokenValue

\* The place of the first aggregate argument of command c, or one past the
\* last argument.
FirstAggregate(c) ==
    IF \E k \in DOMAIN ArgsOf(c) : ArgsOf(c)[k] \in Aggregates
    THEN CHOOSE k \in DOMAIN ArgsOf(c) :
            /\ ArgsOf(c)[k] \in Aggregates
            /\ \A j \in 1..(k - 1) : ArgsOf(c)[j] \notin Aggregates
    ELSE Len(ArgsOf(c)) + 1

\* The place of the argument of command c that the k-th value is for.
Slot(c, k) == IF k < FirstAggregate(c) THEN k ELSE FirstAggregate(c)

\* The k-th value read after the commands were matched.
PositionalValue(k) ==
    SelectSeq(tokLog, IsValueToken)[Len(SelectSeq(parsed, IsCommand)) + k].Value

\* C20: in a context without children a positional value is recorded for
\* the argument at the head of the queue, which stays there if it is an
\* aggregate and is popped if not; so the k-th value is bound to the k-th
\* declared argument before the first aggregate and to that aggregate from
\* its place on, and no argument declared after an aggregate is resolved.
C20_PositionalBinding ==
    /\ [][AtValueInLeaf =>
            /\ parsed' = Append(parsed, Entity(Head(args), Arg(Head(args)).Name,
                                               NextToken.Value))
            /\ args' = IF Head(args) \in Aggregates THEN args ELSE Tail(args)
            /\ context' = context
            /\ parseErr' = NoErr]_vars
    /\ [](Children(context) = <<>> =>
            \A k \in DOMAIN SelectSeq(parsed, IsArgument) :
               /\ Slot(context, k) \in DOMAIN ArgsOf(context)
               /\ SelectSeq(parsed, IsArgument)[k].Option
                     = ArgsOf(context)[Slot(context, k)]
               /\ SelectSeq(parsed, IsArgument)[k].Value = PositionalValue(k))
    /\ [](\A c \in Commands : \A k \in DOMAIN ArgsOf(c) :
            k > FirstAggregate(c) => Unresolved(ArgsOf(c)[k]))

\* C20: sub2 5 x 5 has parsed: 5 is bound to num, x and 5 to the aggregate
\* rest, and ignored, declared after rest, to nothing.
C20_Witness ==
    /\ pc = "pre"
    /\ parseErr = NoErr
    /\ argv = <<A_sub2, A_5, A_x, A_5>>
    /\ parsed = <<Entity("sub2", N_sub2, A_sub2), Entity("num", N_num, A_5),
                  Entity("rest", N_rest, A_x), Entity("rest", N_rest, A_5)>>
    /\ args = <<"rest", "ignored">>

-----------------------------------------------------------------------------
(* Values beyond the declared arguments. *)

\* The argument vectors of the commands and values, and sub1 sub-sub with
\* MaxArgs - 1 strings behind: more values than sub-sub has arguments.
ArgvsExtra ==
    Argvs(VocabPositional, MaxArgs)
      \cup {<<A_sub1, A_sub_sub>> \o w :
              w \in [1..(MaxArgs - 1) -> {A_5, A_x, A_dashdash}]}

InitExtra == InitFrom(ArgvsExtra, {PlainConfig})

SpecExtra == InitExtra /\ [][Next]_vars

\* The next turn of the loop reads a positional value in a context without
\* children whose queue is empty.
AtExtraValue ==
    /\ pc = "parse"
    /\ NextToken.Type = tokenValue
    /\ Children(context) = <<>>
    /\ args = <<>>

\* C21: a positional value read in a context without children whose queue
\* of arguments is empty ends the parse with the unexpected-argument error
\* naming the value, and records nothing; Parse then returns this error, or
\* that of a pre-action in its place, and has made no Set call.
C21_UnexpectedArgument ==
    /\ [][AtExtraValue =>
            /\ parseErr' = Err(E_unexpected, NextToken.Value, Empty)
            /\ parsed' = parsed
            /\ context' = context
            /\ pc' = "pre"]_vars
    /\ [](pc = "done" /\ parseErr.kind = E_unexpected =>
            /\ result = IF FirstFailing = 0 THEN parseErr
                        ELSE Err(E_preAction, PreEntities[FirstFailing].Name, Empty)
            /\ setLog = <<>>
            /\ store = ZeroStore
            /\ actLog = <<>>)

\* C21: sub1 sub-sub x 5 has failed: x went to sub-sub's only argument and
\* 5 is unexpected.
C21_Witness ==
    /\ pc = "done"
    /\ argv = <<A_sub1, A_sub_sub, A_x, A_5>>
    /\ result = Err(E_unexpected, A_5, Empty)
    /\ Occurrences(parsed, "arg") # <<>>
    /\ setLog = <<>>

-----------------------------------------------------------------------------
(* The positional queue of a subcommand. *)

\* Argument a is one of command c's own.
OwnArgument(c, a) == \E j \in DOMAIN tree.args[c] : tree.args[c][j] = a

\* C22: when the context changes it changes to a child of the context, and
\* the positional queue becomes the child's own arguments in declaration
\* order; so every argument resolved is one of the final context's own, and
\* the first value after the switch is bound to its first argument.
C22_QueueOfChild ==
    /\ [][pc = "parse" /\ context' # context =>
            /\ tree.parent[context'] = context
            /\ args' = tree.args[context']]_vars
    /\ [](\A k \in DOMAIN parsed :
            parsed[k].Option \in ArgIds => OwnArgument(context, parsed[k].Option))
    /\ [](SelectSeq(parsed, IsArgument) # <<>> =>
            Head(SelectSeq(parsed, IsArgument)).Option = tree.args[context][1])

\* C22: sub1 sub-sub x has parsed: x is bound to sub-sub's argument, and the
\* root's argument, in the queue before the switch, to nothing.
C22_Witness ==
    /\ pc = "pre"
    /\ parseErr = NoErr
    /\ argv = <<A_sub1, A_sub_sub, A_x>>
    /\ context = "sub-sub"
    /\ Last(parsed) = Entity("arg", N_arg, A_x)
    /\ Unresolved("root-arg")

-----------------------------------------------------------------------------
(* The empty joined value. *)

A_int_eq == DashDash \o N_int \o <<"=">>
A_bool_eq == DashDash \o N_bool \o <<"=">>
A_help_eq == DashDash \o N_help \o <<"=">>

\* "--name=" for flags with a string, an int and a Boolean value and for the
\* flag without one, and strings that may follow.
VocabEmpty ==
    {A_dashdash, A_string_empty, A_int_eq, A_bool_eq, A_help_eq, A_int_eq_5,
     A_b, A_sub1, A_5, A_x}

InitEmpty == InitWith(VocabEmpty, {PlainConfig})

SpecEmpty == InitEmpty /\ [][Next]_vars

\* The next argument string is read in token position and is "--x=" with x
\* the name of a visible flag.
AtEmptyJoined ==
    /\ pc = "parse"
    /\ ~verbatim
    /\ tnext = NoToken
    /\ targs # <<>>
    /\ HasPrefix(Head(targs), DashDash)
    /\ IndexOf(Head(targs), "=") = Len(Head(targs))
    /\ SubSeq(Head(targs), 3, Len(Head(targs)) - 1) \in DOMAIN flags

\* The name in "--x=", the next argument string.
EmptyJoinedName == SubSeq(Head(targs), 3, Len(Head(targs)) - 1)

\* Resolution k is of a flag or argument with a Value, and the Set of every
\* resolution before it accepts its value.
SetReached(k) ==
    /\ parsed[k].Option \in FlagIds \cup ArgIds
    /\ EntityValue(parsed[k].Option) # NoValue
    /\ \A j \in 1..(k - 1) :
          parsed[j].Option \in FlagIds \cup ArgIds
             /\ EntityValue(parsed[j].Option) # NoValue
             => Accepts(EntityValue(parsed[j].Option), parsed[j].Value)

\* C23: "--x=" is read as the long flag x with the assigned token "" on
\* deck; a flag with a Value is recorded with the empty value, without an
\* error and without reading the next argument string, which is still to
\* be read when the assigned token is dropped; and when the values are
\* applied Set("") is called for it.
C23_EmptyJoinedValue ==
    /\ [](AtEmptyJoined =>
            /\ NextToken = Token(tokenLong, EmptyJoinedName)
            /\ OnDeck = Token(tokenAssigned, Empty))
    /\ [][AtEmptyJoined /\ FlagValue(flags[EmptyJoinedName]) # NoValue =>
            /\ parseErr' = NoErr
            /\ parsed' = Append(parsed, Entity(flags[EmptyJoinedName],
                                               DashDash \o EmptyJoinedName, Empty))
            /\ targs' = Tail(targs)
            /\ tnext' = Token(tokenAssigned, Empty)]_vars
    /\ [][pc = "parse" /\ tnext # NoToken /\ tnext.Type = tokenAssigned =>
            /\ targs' = targs
            /\ tnext' = NoToken
            /\ parsed' = parsed
            /\ parseErr' = NoErr]_vars
    /\ [](pc = "done" /\ parseErr = NoErr /\ ~PreActionFails =>
            \A k \in DOMAIN parsed :
               SetReached(k) /\ parsed[k].Value = Empty =>
                  \E i \in DOMAIN setLog :
                     setLog[i] = SetCall(parsed[k].Option, Empty, FALSE))

\* C23: --string= sub1 has been applied: Set("") was called for --string,
\* whose variable is empty and not the default, and sub1 was read as a
\* command.
C23_Witness ==
    /\ pc = "done"
    /\ argv = <<A_string_empty, A_sub1>>
    /\ result = NoErr
    /\ context = "sub1"
    /\ setLog = <<SetCall("string", Empty, FALSE)>>
    /\ store.s = Empty

-----------------------------------------------------------------------------
(* Invalid values. *)

\* The text s is no value of the type of v: no integer for an int or a list
\* of ints, no Boolean for a bool.
Unparsable(v, s) ==
    \/ v.type \in {"int", "ints"} /\ ~ParseInt(s).ok
    \/ v.type \in {"bool", "negbool"} /\ ~ParseBool(s).ok

\* Resolution k is of a flag or argument whose type has no value for its
\* text; types are the types in Types.
Invalid(k, Types) ==
    /\ parsed[k].Option \in FlagIds \cup ArgIds
    /\ EntityValue(parsed[k].Option).type \in Types
    /\ Unparsable(EntityValue(parsed[k].Option), parsed[k].Value)

\* The first invalid resolution.
FirstInvalid(Types) ==
    CHOOSE k \in DOMAIN parsed :
       Invalid(k, Types) /\ \A j \in 1..(k - 1) : ~Invalid(j, Types)

\* When the resolution phase and the pre-actions have succeeded and a
\* resolution of one of the types is invalid, Parse returns the
\* invalid-value error of the first of them, naming it as written.
InvalidReported(Types) ==
    pc = "done" /\ parseErr = NoErr /\ ~PreActionFails
       /\ (\E k \in DOMAIN parsed : Invalid(k, Types))
       => result = Err(E_invalid, parsed[FirstInvalid(Types)].Name,
                       parsed[FirstInvalid(Types)].Value)

\* C24: a resolution whose text is no value of the type of its flag or
\* argument, whatever the type, makes Parse return the invalid-value error
\* naming it.
C24_InvalidOperand == InvalidReported(ValueTypes)

\* The same for the types other than the list of ints, when no list of ints
\* is given an invalid text.
InvalidScalarOperand ==
    (\A k \in DOMAIN parsed : ~Invalid(k, {"ints"}))
       => InvalidReported(ValueTypes \ {"ints"})

-----------------------------------------------------------------------------
(* Short clusters. *)

\* Clusters that begin with a Boolean flag, a flag without a Value and a
\* flag with a value, that end in one, and that hold an unknown character.
VocabCluster ==
    {A_dashdash, A_i7, A_bi7, A_hb, A_bi, A_sx, A_hx, A_5, A_sub1, A_int_eq_5}

InitCluster == InitWith(VocabCluster, {PlainConfig})

SpecCluster == InitCluster /\ [][Next]_vars

\* The next turn of the loop reads a short flag.
AtShort == pc = "parse" /\ NextToken.Type = tokenShort

\* The characters of the cluster not yet read: the rest on deck, or the next
\* argument string without its "-".
ClusterText == IF tnext = NoToken THEN SubSeq(Head(targs), 2, Len(Head(targs)))
               ELSE tnext.Value

\* The first of them, and those behind it.
ClusterHead == <<ClusterText[1]>>
ClusterRest == SubSeq(ClusterText, 2, Len(ClusterText))

\* The argument strings behind the cluster.
AfterCluster == IF tnext = NoToken THEN Tail(targs) ELSE targs

\* The flag the first character names takes no operand: it is Boolean or
\* has no Value.
TakesNoOperand ==
    \/ FlagValue(shortFlags[ClusterHead]) = NoValue
    \/ IsBoolean(FlagValue(shortFlags[ClusterHead]))

\* C25: the first character of a cluster not yet read is resolved.  If it
\* names no flag the parse ends with the unknown-flag error.  A Boolean flag
\* is recorded with "true" and a flag without a Value with no value; the
\* characters behind it stay on deck and the first of them is read next as
\* a short flag.  Any other flag is recorded with all the characters behind
\* it as its value, or with the next argument string if there are none, or
\* ends the parse with the requires-a-value error if there is no string.
C25_ShortCluster ==
    [][AtShort =>
         IF ClusterHead \notin DOMAIN shortFlags
         THEN /\ parseErr' = Err(E_unknownFlag, ClusterHead, Empty)
              /\ parsed' = parsed
         ELSE IF TakesNoOperand
         THEN /\ parseErr' = NoErr
              /\ parsed' = Append(parsed,
                              Entity(shortFlags[ClusterHead], Dash \o ClusterHead,
                                     IF FlagValue(shortFlags[ClusterHead]) = NoValue
                                     THEN Empty ELSE Str_true))
              /\ targs' = AfterCluster
              /\ tnext' = IF ClusterRest = Empty THEN NoToken
                          ELSE Token(tokenRemainder, ClusterRest)
              /\ ClusterRest # Empty =>
                    NextToken' = Token(tokenShort, <<ClusterRest[1]>>)
         ELSE IF ClusterRest # Empty
         THEN /\ parseErr' = NoErr
              /\ parsed' = Append(parsed, Entity(shortFlags[ClusterHead],
                                                 Dash \o ClusterHead, ClusterRest))
              /\ targs' = AfterCluster
              /\ tnext' = NoToken
         ELSE IF AfterCluster # <<>>
         THEN /\ parseErr' = NoErr
              /\ parsed' = Append(parsed, Entity(shortFlags[ClusterHead],
                                                 Dash \o ClusterHead,
                                                 Head(AfterCluster)))
              /\ targs' = Tail(AfterCluster)
              /\ tnext' = NoToken
         ELSE /\ parseErr' = Err(E_requires, Dash \o ClusterHead, Empty)
              /\ parsed' = parsed]_vars

\* C25: -hb -bi7 has been applied: --help is seen, b is true and i is 7.
C25_Witness ==
    /\ pc = "done"
    /\ argv = <<A_hb, A_bi7>>
    /\ result = NoErr
    /\ parsed = <<Entity("help", A_h, Empty), Entity("bool", A_b, Str_true),
                  Entity("bool", A_b, Str_true), Entity("int", A_i, <<"7">>)>>
    /\ store.b = TRUE
    /\ store.i = 7

-----------------------------------------------------------------------------
(* A Set call that fails. *)

\* Resolution k is of a flag or argument that has a Value.
Valued(k) ==
    /\ parsed[k].Option \in FlagIds \cup ArgIds
    /\ EntityValue(parsed[k].Option) # NoValue

\* The Set of resolution k rejects its value.
Rejected(k) == Valued(k) /\ ~Accepts(EntityValue(parsed[k].Option), parsed[k].Value)

\* The first resolution whose Set rejects its value.
FirstRejected ==
    CHOOSE k \in DOMAIN parsed : Rejected(k) /\ \A j \in 1..(k - 1) : ~Rejected(j)

RECURSIVE CallsUpTo(_)
\* The Set calls of the resolutions 1..k, in order.
CallsUpTo(k) ==
    IF k = 0 THEN <<>>
    ELSE CallsUpTo(k - 1)
           \o (IF Valued(k) THEN <<SetCall(parsed[k].Option, parsed[k].Value, FALSE)>>
               ELSE <<>>)

\* The resolutions of entity e among the first n, and those of them whose
\* text is an integer.
Before(n, e) == Occurrences(SubSeq(parsed, 1, n), e)
IntegersBefore(n, e) == SelectSeq(Before(n, e), LAMBDA x : ParseInt(x.Value).ok)

\* What the variable of entity e holds when only the resolutions 1..n have
\* been set: the zero value, the value of the last of them, or for an
\* aggregate the values of all of them.
HeldAfter(n, e) ==
    IF EntityValue(e).type = "ints"
    THEN [i \in DOMAIN IntegersBefore(n, e) |-> ParseInt(IntegersBefore(n, e)[i].Value).val]
    ELSE IF Before(n, e) = <<>> THEN ZeroStore[EntityValue(e).var]
    ELSE Denotes(EntityValue(e), Last(Before(n, e)).Value)

\* C26: when the resolution phase and the pre-actions have succeeded and
\* the Set of resolution j is the first to fail, Parse returns the
\* invalid-value error of resolution j; the Set calls made are those of the
\* resolutions 1..j and no other, none of a default; every variable holds
\* what resolutions 1..j-1 gave it; and no Action is invoked.
C26_SetFailure ==
    pc = "done" /\ parseErr = NoErr /\ ~PreActionFails
       /\ (\E k \in DOMAIN parsed : Rejected(k)) =>
          /\ result = Err(E_invalid, parsed[FirstRejected].Name,
                          parsed[FirstRejected].Value)
          /\ setLog = CallsUpTo(FirstRejected)
          /\ \A e \in FlagIds \cup ArgIds :
                EntityValue(e) # NoValue =>
                   store[EntityValue(e).var] = HeldAfter(FirstRejected - 1, e)
          /\ actLog = <<>>

\* C26: sub1 --flag=7 --int=x has failed where --flag is required and
\* --warn has a default that fails: flag is still 7, the error is that of
\* --int=x, and no default was tried.
C26_Witness ==
    /\ pc = "done"
    /\ cfg.required = {"flag"}
    /\ cfg.defaults = BadDefaults
    /\ argv = <<A_sub1, A_flag_eq_7, A_int_eq_x>>
    /\ result = Err(E_invalid, A_int, <<"x">>)
    /\ store.flag = 7
    /\ Len(setLog) = 2

-----------------------------------------------------------------------------
(* The order of the unset entities. *)

\* Required entities of the root, of sub1 and of sub-sub, behind entities
\* with defaults and before others; a default that fails before one that
\* does not.
ConfigsOrder ==
    {Config(Commands, {"array"}, {}, {}, ManyDefaults),
     Config(Commands, {"arg"}, {}, {}, ManyDefaults),
     Config(Commands, {"string", "flag"}, {}, {}, ManyDefaults),
     Config(Commands, {"num", "root-arg"}, {}, {}, ManyDefaults),
     Config(Commands, {}, {}, {}, MixedDefaults)}

VocabOrder ==
    {A_dashdash, A_int_eq_5, A_string_empty, A_a3, A_flag_eq_7, A_b, A_sub1,
     A_sub2, A_sub_sub, A_x}

InitOrder == InitWith(VocabOrder, ConfigsOrder)

SpecOrder == InitOrder /\ [][Next]_vars

\* The Set calls of the defaults ds of entity e.
CallsOf(e, ds) == [i \in DOMAIN ds |-> SetCall(e, ds[i], TRUE)]

\* The defaults ds up to the first that the Set of v rejects.
UpToRejected(v, ds) ==
    IF \E i \in DOMAIN ds : ~Accepts(v, ds[i])
    THEN SubSeq(ds, 1, CHOOSE i \in DOMAIN ds :
                          ~Accepts(v, ds[i]) /\ \A j \in 1..(i - 1) : Accepts(v, ds[j]))
    ELSE ds

RECURSIVE DefaultCalls(_)
\* The Set calls of defaults made when the entities q are visited in order:
\* those of each unresolved entity, up to a required one, which ends the
\* visit, or to a default that is rejected.
DefaultCalls(q) ==
    IF q = <<>> THEN <<>>
    ELSE IF ~Unresolved(Head(q)) THEN DefaultCalls(Tail(q))
    ELSE IF Head(q) \in cfg.required THEN <<>>
    ELSE IF DefaultFails(Head(q))
    THEN CallsOf(Head(q), UpToRejected(EntityValue(Head(q)),
                                       EntityValue(Head(q)).defaults))
    ELSE CallsOf(Head(q), EntityValue(Head(q)).defaults)
           \o DefaultCalls(Tail(q))

IsDefaultCall(c) == c.default

\* C27: when every resolution has been set, the unset entities are visited
\* from the root down to the final context, each command's flags before its
\* arguments, in declaration order: the defaults applied are those of the
\* unresolved entities before the first unresolved required one, in that
\* order, and no other; and the error names that required entity.
C27_UnsetOrder ==
    pc = "done" /\ parseErr = NoErr /\ ~PreActionFails /\ ~SetFails =>
       /\ SelectSeq(setLog, IsDefaultCall) = DefaultCalls(ChainOrder(context))
       /\ FirstStop(ChainOrder(context)) \in cfg.required =>
             /\ result = Missing(FirstStop(ChainOrder(context)))
             /\ actLog = <<>>

\* C27: sub1 sub-sub has failed where sub-sub's argument is required:
\* --int, --string and --array of the root and --flag of sub1 have their
\* defaults, and the error names arg.
C27_Witness ==
    /\ pc = "done"
    /\ cfg.required = {"arg"}
    /\ argv = <<A_sub1, A_sub_sub>>
    /\ result = Err(E_missingArg, N_arg, Empty)
    /\ setLog = <<SetCall("int", <<"5">>, TRUE), SetCall("string", Str_default, TRUE),
                  SetCall("array", <<"1">>, TRUE), SetCall("array", <<"2">>, TRUE),
                  SetCall("flag", <<"7">>, TRUE)>>

-----------------------------------------------------------------------------
(* The resolution of a command. *)

\* C28 as stated: the resolution list holds resolutions of flags and of
\* positional arguments only.
C28_AsStated ==
    \A k \in DOMAIN parsed : parsed[k].Option \in FlagIds \cup ArgIds

\* C28, amended: a switch to a subcommand appends one resolution, of the
\* command with its name and the token, so the commands in the resolution
\* list are those from below the root down to the context, in order; value
\* application makes no Set call for a command and does not mark it seen.
C28_CommandRecorded ==
    /\ [][pc = "parse" /\ context' # context =>
            parsed' = Append(parsed, Entity(context', CmdName(context'),
                                            NextToken.Value))]_vars
    /\ [](\A k \in DOMAIN SelectSeq(parsed, IsCommand) :
            tree.parent[SelectSeq(parsed, IsCommand)[k].Option]
               = IF k = 1 THEN "root" ELSE SelectSeq(parsed, IsCommand)[k - 1].Option)
    /\ [](context = IF SelectSeq(parsed, IsCommand) = <<>> THEN "root"
                    ELSE Last(SelectSeq(parsed, IsCommand)).Option)
    /\ [](seen \cap Commands = {})
    /\ [](\A i \in DOMAIN setLog : setLog[i].entity \notin Commands)

\* C28: sub1 --flag=7 sub-sub has been applied: the resolution list holds
\* sub1, --flag and sub-sub, and only --flag was set from it.
C28_Witness ==
    /\ pc = "done"
    /\ result = NoErr
    /\ argv = <<A_sub1, A_flag_eq_7, A_sub_sub>>
    /\ parsed = <<Entity("sub1", N_sub1, A_sub1),
                  Entity("flag", DashDash \o N_flag, <<"7">>),
                  Entity("sub-sub", N_sub_sub, A_sub_sub)>>
    /\ seen = {"flag"}
    /\ store.flag = 7

-----------------------------------------------------------------------------
(* Flags with the same name. *)

A_level_eq_5 == DashDash \o N_level \o <<"=", "5">>
A_level_eq_x == DashDash \o N_level \o <<"=", "x">>
A_l5 == <<"-", "l", "5">>

\* --level and -l, declared by the root, twice by sub1 (long only) and by
\* sub-sub (short only), before and after the commands.
VocabCollide ==
    {A_dashdash, A_level_eq_5, A_level_eq_x, A_l5, A_b, A_sub1, A_sub2, A_sub_sub}

InitCollide == InitWith(VocabCollide, {PlainConfig})

SpecCollide == InitCollide /\ [][Next]_vars

\* The command that declares flag f, and the place of f in its flags.
Owner(f) == CHOOSE c \in Commands : \E k \in DOMAIN FlagsOf(c) : FlagsOf(c)[k] = f
PlaceOf(f) == CHOOSE k \in DOMAIN FlagsOf(Owner(f)) : FlagsOf(Owner(f))[k] = f

\* Flag f is registered after flag g: it is declared on a command further
\* from the root, or later on the same command.
RegisteredAfter(f, g) ==
    \/ Cardinality(PathTo(Owner(f))) > Cardinality(PathTo(Owner(g)))
    \/ Owner(f) = Owner(g) /\ PlaceOf(f) > PlaceOf(g)

\* The flag of S registered last.
Winner(S) == CHOOSE f \in S : \A g \in S \ {f} : RegisteredAfter(f, g)

\* C29: a long name resolves to the flag of that name registered last among
\* those of the commands from the root down to the context, and so does a
\* short name, each table on its own; a flag token with such a name is
\* recorded for that flag, and the collision is no error.
C29_LastRegisteredWins ==
    /\ [](\A n \in DOMAIN flags : flags[n] = Winner(PathFlagNamed(context, n)))
    /\ [](\A n \in DOMAIN shortFlags :
            shortFlags[n] = Winner(PathFlagShort(context, n)))
    /\ [][pc = "parse" /\ NextToken.Type = tokenLong
            /\ PathFlagNamed(context, NextToken.Value) # {} =>
               /\ parseErr'.kind # E_unknownFlag
               /\ parseErr' = NoErr =>
                     Last(parsed').Option
                        = Winner(PathFlagNamed(context, NextToken.Value))]_vars
    /\ [][pc = "parse" /\ NextToken.Type = tokenShort
            /\ PathFlagShort(context, NextToken.Value) # {} =>
               /\ parseErr'.kind # E_unknownFlag
               /\ parseErr' = NoErr =>
                     Last(parsed').Option
                        = Winner(PathFlagShort(context, NextToken.Value))]_vars

\* C29: --level=5 sub1 --level=x has been applied: before the switch
\* --level is the root's int, after it the string sub1 declares last, and
\* the one sub1 declares first is not set.
C29_Witness ==
    /\ pc = "done"
    /\ argv = <<A_level_eq_5, A_sub1, A_level_eq_x>>
    /\ result = NoErr
    /\ store.level = 5
    /\ store.level2 = <<"x">>
    /\ store.level1 = Empty

\* C29: sub1 -l5 --level=5 has been applied: below sub1 the short name is
\* still the root's flag while the long name is sub1's.
C29_ShortKept ==
    /\ pc = "done"
    /\ argv = <<A_sub1, A_l5, A_level_eq_5>>
    /\ result = NoErr
    /\ store.level = 5
    /\ store.level2 = <<"5">>

-----------------------------------------------------------------------------
(* Declaring and applying defaults. *)

\* The default texts and the entities they are declared on: flags and
\* arguments of every built-in type.
DefaultTexts == {<<"1">>, <<"x">>}
Declarable == {"int", "string", "bool", "array", "rest"}

\* e.Value = WithDefault(e.Value, s...), whose panic the caller recovers
\* from: the wrapper takes the place of the value, which may be a wrapper
\* already.
DeclareDefault ==
    /\ pc = "build"
    /\ \E e \in Declarable, s \in Some(DefaultTexts, MaxAdd) \cup {<<>>} :
          /\ Cardinality(DOMAIN cfg.defaults \cup {e}) <= MaxDecl
          /\ IF WithDefaultPanics(EntityValue(e), s)
             THEN result' = Panic /\ cfg' = cfg
             ELSE /\ result' = NoErr
                  /\ cfg' = [cfg EXCEPT !.defaults = MapPut(@, e, s)]
    /\ UNCHANGED <<argv, targs, tnext, context, commands, flags, shortFlags,
                   args, parsed, verbatim, pc, parseErr, store, seen, setLog,
                   preLog, actLog, tokLog, tree>>

SpecDeclare == InitBuild /\ [][DeclareDefault]_vars

\* The type of the value of entity e is an aggregate, wrapped or not.
AggregateType(e) == EntityValue(e).type \in {"strings", "ints"}

\* No declaration holds several defaults for a value that is not an
\* aggregate.
DeclaredLegal ==
    \A e \in DOMAIN cfg.defaults : Len(cfg.defaults[e]) > 1 => AggregateType(e)

\* A declaration of several defaults leaves the declarations as they were
\* and panics unless the value is an aggregate that has no defaults yet;
\* every other declaration returns.
DeclarationPanics ==
    [][/\ result' = Panic => cfg' = cfg
       /\ cfg' # cfg => result' = NoErr
       /\ \A e \in DOMAIN cfg'.defaults :
             (e \notin DOMAIN cfg.defaults /\ Len(cfg'.defaults[e]) > 1)
                => AggregateType(e)]_vars

\* The aggregate rest has been declared with two defaults.
DeclaredSeveral ==
    "rest" \in DOMAIN cfg.defaults /\ Len(cfg.defaults["rest"]) = 2 /\ result = NoErr

\* Several defaults on the aggregates --array and rest; a default of --array
\* that strconv.ParseInt rejects between two it accepts; a default of --int
\* that is rejected.
AggregateDefaults ==
    ("array" :> <<<<"1">>, <<"2">>>>) @@ ("rest" :> <<<<"3">>, <<"5">>>>)
      @@ ("string" :> <<Str_default>>)
BadIntsDefaults ==
    ("array" :> <<<<"1">>, <<"x">>, <<"2">>>>) @@ ("string" :> <<Str_default>>)

ConfigsApply ==
    {Config(Commands, {}, {"help", "sub1"}, {}, d) :
       d \in {AggregateDefaults, BadIntsDefaults, MixedDefaults}}

VocabApply ==
    {A_dashdash, A_a3, A_int_eq_5, A_b, A_sub1, A_sub2, A_x, A_5}

InitApply == InitWith(VocabApply, ConfigsApply)

SpecApply == InitApply /\ [][Next]_vars

\* The values the texts ds denote for value v.
Held(v, ds) == [k \in DOMAIN ds |-> Denotes(v, ds[k])]

\* Entity e is visited by value application and has received no resolution.
Unseen(e) == Unresolved(e) /\ OnChain(e)

\* The Set calls of the defaults of every entity are its defaults, in order,
\* up to the first that Set rejects, whose error is the one returned.
DefaultsInOrder ==
    \A e \in WithDefaults :
       /\ DefaultsSet(e) \in {<<>>, UpToRejected(EntityValue(e), cfg.defaults[e])}
       /\ DefaultsSet(e) # <<>> /\ DefaultFails(e) =>
             /\ pc = "done"
             /\ result.kind = E_invalid
             /\ result.value = Last(DefaultsSet(e))
       /\ Succeeded /\ Unseen(e) => DefaultsSet(e) = cfg.defaults[e]

\* C30: the defaults of an unseen entity are set in order up to the first
\* that fails, whose error is returned, and after a successful Parse an
\* unseen aggregate with defaults holds exactly the values of its defaults,
\* in order.
C30_DefaultsHeld ==
    /\ DefaultsInOrder
    /\ DeclaredLegal
    /\ Succeeded =>
          \A e \in WithDefaults :
             Unseen(e) /\ AggregateType(e) =>
                store[EntityValue(e).var] = Held(EntityValue(e), cfg.defaults[e])

\* The same for the aggregates whose defaults are all texts of their type.
DefaultsHeldIfParsable ==
    Succeeded =>
       \A e \in WithDefaults :
          (/\ Unseen(e) /\ AggregateType(e)
           /\ \A k \in DOMAIN cfg.defaults[e] :
                 EntityValue(e).type = "ints" => ParseInt(cfg.defaults[e][k]).ok)
             => store[EntityValue(e).var] = Held(EntityValue(e), cfg.defaults[e])

\* sub2 5 has parsed with two defaults on --array and on rest, which were
\* not given: both hold their defaults in order.
AggregateDefaultsHeld ==
    /\ Succeeded
    /\ argv = <<A_sub2, A_5>>
    /\ cfg.defaults = AggregateDefaults
    /\ store.a = <<1, 2>>
    /\ store.rest = <<3, 5>>

\* Parse of no arguments has returned nil with the defaults 1, x, 2 on
\* --array, which holds 1 and 2.
BadIntsDefaultDropped ==
    /\ Succeeded
    /\ argv = <<>>
    /\ cfg.defaults = BadIntsDefaults
    /\ store.a = <<1, 2>>

-----------------------------------------------------------------------------
(* Termination. *)

\* A step of Command.Parse: a turn of the loop reads a token and goes on or
\* leaves the loop, and each of the three steps after the loop goes on to
\* the next or returns.
Proceeds ==
    \/ pc = "parse" /\ pc' \in {"parse", "pre"} /\ tokLog' = Append(tokLog, NextToken)
    \/ pc = "pre" /\ pc' \in {"set", "done"} /\ tokLog' = tokLog
    \/ pc = "set" /\ pc' \in {"action", "done"} /\ tokLog' = tokLog
    \/ pc = "action" /\ pc' = "done" /\ tokLog' = tokLog

\* A call of Command.Parse that has not returned takes its next step.
SpecTerminates == InitCluster /\ [][Next]_vars /\ WF_<<pc, tokLog>>(Proceeds)

\* The call of tokenizer.Next on the fields a, n that gave r has removed one
\* string from the arguments, or shortened the remainder on deck, or cleared
\* the deck, or has found neither a string nor a token and returned EOF.
Advanced(a, n, r) ==
    \/ n = NoToken /\ a # <<>> /\ r.args = Tail(a)
    \/ /\ n # NoToken /\ n.Type = tokenRemainder
       /\ r.args = a
       /\ r.next # NoToken /\ r.next.Type = tokenRemainder
       /\ Len(r.next.Value) < Len(n.Value)
    \/ n # NoToken /\ r.args = a /\ r.next = NoToken
    \/ /\ n = NoToken /\ a = <<>>
       /\ r.tok.Type = tokenEOF /\ r.args = a /\ r.next = NoToken

\* After r, an EOF, every further call gives EOF.
StaysAtEOF(r) ==
    r.tok.Type = tokenEOF =>
       \A v \in BOOLEAN : TokNext(r.args, r.next, v).tok.Type = tokenEOF

\* The call r of a turn of the loop on the fields a, n, and the call for
\* the operand of a flag that may follow it.
CallsAdvance(a, n, r) ==
    /\ Advanced(a, n, r)
    /\ StaysAtEOF(r)
    /\ Advanced(r.args, r.next, TokNext(r.args, r.next, TRUE))
    /\ StaysAtEOF(TokNext(r.args, r.next, TRUE))

RECURSIVE Characters(_)
\* What is left to scan of the arguments a: two for each string and one for
\* each of its characters.
Characters(a) == IF a = <<>> THEN 0 ELSE Len(Head(a)) + 2 + Characters(Tail(a))

\* What is left to scan: the arguments and the token on deck.
LeftToScan(a, n) ==
    Characters(a) + IF n = NoToken THEN 0 ELSE Len(n.Value) + 1

\* C31: Parse returns; every call of the scanner removes one string from the
\* arguments, shortens the remainder on deck or clears the deck, and after
\* an EOF every call gives EOF; every step is a step onwards, and every turn
\* of the loop leaves less to scan or is the last.
C31_Terminates ==
    /\ <>(pc = "done")
    /\ [][Proceeds]_vars
    /\ [](pc = "parse" => CallsAdvance(targs, tnext, TokNext(targs, tnext, verbatim)))
    /\ [][pc = "parse" =>
            \/ pc' # "parse"
            \/ LeftToScan(targs', tnext') < LeftToScan(targs, tnext)]_vars

\* C31: Parse of -bi7 --int=5 -- has returned after seven turns of the loop
\* that read -b, -i (and 7), --int, =5 (twice, as operand and as token), --
\* and the end.
C31_Witness ==
    /\ pc = "done"
    /\ argv = <<A_bi7, A_int_eq_5, A_dashdash>>
    /\ result = NoErr
    /\ Len(tokLog) = 6
    /\ targs = <<>>
    /\ tnext = NoToken

-----------------------------------------------------------------------------
(* A parse error and the program's variables. *)

\* Flags and arguments that resolve, and behind them an unknown flag (-hx),
\* a value that is no command (x), a flag without its operand (--int), a
\* value given to a flag that has none (--help=x) and, below sub1 sub-sub, a
\* value beyond the arguments.
VocabFail ==
    {A_dashdash, A_int_eq_5, A_b, A_int, A_hx, A_help_eq_x, A_x, A_sub1, A_sub_sub}

ArgvsFail ==
    Argvs(VocabFail, MaxArgs)
      \cup {<<A_sub1, A_sub_sub>> \o w : w \in [1..(MaxArgs - 1) -> {A_x, A_b}]}

\* The declarations of the tests, and with a PreAction of --help that fails.
ConfigsFail ==
    {PlainConfig, Config(Commands, {}, {"help", "sub1"}, {"help"}, PlainDefaults)}

InitFail == InitFrom(ArgvsFail, ConfigsFail)

SpecFail == InitFail /\ [][Next]_vars

\* The errors of the resolution phase.
ParseErrors == {E_unknownFlag, E_notCommand, E_requires, E_unexpected, E_noValue}

\* C32: after a parse error no Set call is ever made, for a parsed value or
\* for a default, no variable changes and no Action runs, and Parse returns
\* an error.
C32_NoSetOnParseError ==
    parseErr # NoErr =>
       /\ parseErr.kind \in ParseErrors
       /\ setLog = <<>>
       /\ seen = {}
       /\ store = ZeroStore
       /\ actLog = <<>>
       /\ pc \in {"pre", "done"}
       /\ pc = "done" => result # NoErr

\* C32: --int=5 -b -hx has been parsed up to the unknown flag -x and Parse
\* has returned: --int and -b were resolved and i and b are as before.
C32_Witness ==
    /\ pc = "done"
    /\ argv = <<A_int_eq_5, A_b, A_hx>>
    /\ cfg = PlainConfig
    /\ result = Err(E_unknownFlag, <<"x">>, Empty)
    /\ Occurrences(parsed, "int") # <<>>
    /\ Occurrences(parsed, "bool") # <<>>
    /\ store.i = 0
    /\ store.b = FALSE
    /\ store.s = Empty

\* Parse has returned each error of the resolution phase.
ReturnedUnknownFlag == pc = "done" /\ result.kind = E_unknownFlag
ReturnedNotCommand == pc = "done" /\ result.kind = E_notCommand
ReturnedRequires == pc = "done" /\ result.kind = E_requires
ReturnedUnexpected == pc = "done" /\ result.kind = E_unexpected
ReturnedNoValue == pc = "done" /\ result.kind = E_noValue

-----------------------------------------------------------------------------
(* The context. *)

RECURSIVE NamesTo(_)
\* The names of the commands from the root down to c, by the parent links.
NamesTo(c) ==
    IF tree.parent[c] = "nil" THEN <<CmdName(c)>>
    ELSE NamesTo(tree.parent[c]) \o <<CmdName(c)>>

\* The texts of the values that matched a subcommand, in order.
MatchedNames ==
    [k \in DOMAIN SelectSeq(parsed, IsCommand) |-> SelectSeq(parsed, IsCommand)[k].Value]

\* C33: the context is always a command; it is the root until a token is
\* read; it changes only in a turn of the loop that reads a value naming a
\* child of the context, and then to that child; and the names of the
\* commands from the root down to the context are the root's followed by the
\* values that matched a subcommand so far, in order.
C33_ContextChain ==
    /\ [](context \in Commands)
    /\ [](tokLog = <<>> => context = "root")
    /\ [][context' # context =>
            /\ pc = "parse"
            /\ NextToken.Type = tokenValue
            /\ tree.parent[context'] = context
            /\ CmdName(context') = NextToken.Value]_vars
    /\ [](NamesTo(context) = <<CmdName("root")>> \o MatchedNames)

\* C33: sub1 -b sub-sub has been parsed: the context went from the root to
\* sub1 and on to sub-sub.
C33_Witness ==
    /\ pc = "done"
    /\ argv = <<A_sub1, A_b, A_sub_sub>>
    /\ result = NoErr
    /\ context = "sub-sub"
    /\ MatchedNames = <<N_sub1, N_sub_sub>>
    /\ actLog = <<[cmd |-> "sub-sub", ctx |-> "sub-sub"]>>

-----------------------------------------------------------------------------
(* Two flags bound to one variable. *)

A_enable_foo == DashDash \o N_enable_foo
A_disable_foo == DashDash \o N_disable_foo
A_enable_foo_eq_false == DashDash \o N_enable_foo \o <<"=">> \o Str_false
A_enable_foo_eq_true == DashDash \o N_enable_foo \o <<"=">> \o Str_true

\* --enable-foo and --disable-foo, bare and with a value, among other flags
\* and a command.
VocabShared ==
    {A_dashdash, A_enable_foo, A_disable_foo, A_enable_foo_eq_false,
     A_enable_foo_eq_true, A_b, A_int_eq_5, A_sub1}

\* foo is on unless it is disabled: --enable-foo has the default "true".
SharedDefaults == ("enable-foo" :> <<Str_true>>) @@ PlainDefaults

\* The declarations of TestParseBoolValue, without a default and with one.
ConfigsShared ==
    {PlainConfig, Config(Commands, {}, {"help", "sub1"}, {}, SharedDefaults)}

InitShared == InitWith(VocabShared, ConfigsShared)

SpecShared == InitShared /\ [][Next]_vars

\* The program variables that hold one value.
Scalars ==
    {x \in DOMAIN ZeroStore :
       \E e \in FlagIds \cup ArgIds :
          /\ EntityValue(e) # NoValue
          /\ EntityValue(e).var = x
          /\ EntityValue(e).type \in {"bool", "negbool", "int", "string"}}

\* Resolution r is of a flag or argument bound to variable x.
Binds(r, x) ==
    /\ r.Option \in FlagIds \cup ArgIds
    /\ EntityValue(r.Option) # NoValue
    /\ EntityValue(r.Option).var = x

\* The resolutions of the flags and arguments bound to variable x.
ResolutionsOf(x) == SelectSeq(parsed, LAMBDA r : Binds(r, x))

\* What resolution r gives its variable.
Given(r) == Denotes(EntityValue(r.Option), r.Value)

\* C34: after a successful Parse a variable that holds one value and
\* received at least one resolution, through any of the flags and arguments
\* bound to it, holds what the last of them gives.
C34_LastResolutionHeld ==
    Succeeded =>
       \A x \in Scalars :
          ResolutionsOf(x) # <<>> => store[x] = Given(Last(ResolutionsOf(x)))

\* The same for a variable none of whose unresolved flags and arguments
\* has defaults.
LastResolutionHeldUnlessDefault ==
    Succeeded =>
       \A x \in Scalars :
          (/\ ResolutionsOf(x) # <<>>
           /\ \A e \in WithDefaults :
                 EntityValue(e).var = x /\ cfg.defaults[e] # <<>> => ~Unresolved(e))
             => store[x] = Given(Last(ResolutionsOf(x)))

\* The cases of TestParseBoolValue: --disable-foo --enable-foo leaves foo
\* true, and --enable-foo --disable-foo leaves it false.
OverridePositive ==
    /\ Succeeded
    /\ cfg = PlainConfig
    /\ argv = <<A_disable_foo, A_enable_foo>>
    /\ store.foo = TRUE
OverrideNegative ==
    /\ Succeeded
    /\ cfg = PlainConfig
    /\ argv = <<A_enable_foo, A_disable_foo>>
    /\ store.foo = FALSE

\* --disable-foo has parsed with the default "true" on --enable-foo: foo is
\* set to false and then, by the default, to true.
DisabledThenDefault ==
    /\ Succeeded
    /\ cfg.defaults = SharedDefaults
    /\ argv = <<A_disable_foo>>
    /\ Head(setLog) = SetCall("disable-foo", Str_true, FALSE)
    /\ Last(setLog) = SetCall("enable-foo", Str_true, TRUE)
    /\ store.foo = TRUE

-----------------------------------------------------------------------------
(* Values decorated with defaults. *)

\* The Boolean flag --bool and the aggregate argument rest of sub2 with
\* defaults.
DecoratedDefaults ==
    ("bool" :> <<Str_false>>) @@ ("rest" :> <<<<"1">>>>) @@ PlainDefaults

ConfigsDecorated ==
    {PlainConfig, Config(Commands, {}, {"help", "sub1"}, {}, DecoratedDefaults)}

\* --bool bare, in a cluster and with a value, and values for sub2.
VocabDecorated ==
    {A_dashdash, A_bool, A_b, A_bi7, A_bool_eq_true, A_sub2, A_5, A_x}

ArgvsDecorated ==
    Argvs(VocabDecorated, MaxArgs)
      \cup {<<A_sub2>> \o w : w \in [1..MaxArgs -> {A_5}]}

InitDecorated == InitFrom(ArgvsDecorated, ConfigsDecorated)

SpecDecorated == InitDecorated /\ [][Next]_vars

\* The value inside the Value of entity e is a Boolean, or an aggregate.
InnerBoolean(e) == EntityValue(e).type \in {"bool", "negbool"}
InnerAggregate(e) == EntityValue(e).type \in {"strings", "ints"}

\* The next turn of the loop reads a token that names a flag whose inner
\* value is a Boolean and that comes without "=value".
AtBareInnerBoolean ==
    /\ pc = "parse"
    /\ FlagOf(NextToken) # "nil"
    /\ InnerBoolean(FlagOf(NextToken))
    /\ TokNext(targs, tnext, verbatim).next.Type # tokenAssigned

\* C35: IsBoolean and IsAggregate of a Value with defaults are those of the
\* value inside; a bare flag whose inner value is a Boolean resolves to
\* "true" and takes no operand, and an argument whose inner value is an
\* aggregate stays at the head of the queue, with defaults as without.
C35_DecorationTransparent ==
    /\ [](\A e \in WithDefaults :
            /\ IsBoolean(EntityValue(e)) = InnerBoolean(e)
            /\ IsAggregate(EntityValue(e)) = InnerAggregate(e))
    /\ [][AtBareInnerBoolean =>
            /\ Resolves(FlagOf(NextToken), Str_true)
            /\ targs' = TokNext(targs, tnext, verbatim).args
            /\ tnext' = TokNext(targs, tnext, verbatim).next]_vars
    /\ [][AtValueInLeaf /\ InnerAggregate(Head(args)) => args' = args]_vars

\* The same for the flags and arguments declared without defaults.
UndecoratedAsDeclared ==
    /\ [][AtBareInnerBoolean /\ FlagOf(NextToken) \notin WithDefaults =>
            /\ Resolves(FlagOf(NextToken), Str_true)
            /\ targs' = TokNext(targs, tnext, verbatim).args
            /\ tnext' = TokNext(targs, tnext, verbatim).next]_vars
    /\ [][AtValueInLeaf /\ InnerAggregate(Head(args))
            /\ Head(args) \notin WithDefaults => args' = args]_vars

\* --bool alone fails for want of an operand when --bool has a default, and
\* succeeds when it has none.
DecoratedBooleanBare ==
    /\ pc = "done"
    /\ argv = <<A_bool>>
    /\ cfg.defaults = DecoratedDefaults
    /\ result = Err(E_requires, A_bool, Empty)
UndecoratedBooleanBare ==
    /\ Succeeded
    /\ argv = <<A_bool>>
    /\ cfg = PlainConfig
    /\ store.b = TRUE

\* --bool 5 with a default on --bool takes 5 for the operand, which is no
\* Boolean.
DecoratedBooleanOperand ==
    /\ pc = "done"
    /\ argv = <<A_bool, A_5>>
    /\ cfg.defaults = DecoratedDefaults
    /\ result = Err(E_invalid, A_bool, A_5)

\* sub2 5 5 5: with a default on rest the second value goes to rest and the
\* third to the argument declared after it; without, both go to rest.
DecoratedAggregateOnce ==
    /\ Succeeded
    /\ argv = <<A_sub2, A_5, A_5, A_5>>
    /\ cfg.defaults = DecoratedDefaults
    /\ store.rest = <<5>>
    /\ store.ignored = 5
UndecoratedAggregateAll ==
    /\ Succeeded
    /\ argv = <<A_sub2, A_5, A_5, A_5>>
    /\ cfg = PlainConfig
    /\ store.rest = <<5, 5>>
    /\ store.ignored = 0

-----------------------------------------------------------------------------
(* A required argument of a command that has children. *)

\* The root's argument required: alone, with a PreAction of --help that
\* fails, with a default on --warn that its Set rejects, and with the flag
\* --int required too; and required entities of sub1 and sub2 alone.
ConfigsStranded ==
    {Config(Commands, {"root-arg"}, {"help", "sub1"}, {}, PlainDefaults),
     Config(Commands, {"root-arg"}, {"help", "sub1"}, {"help"}, PlainDefaults),
     Config(Commands, {"root-arg"}, {"help", "sub1"}, {}, BadDefaults),
     Config(Commands, {"root-arg", "int"}, {"help", "sub1"}, {}, PlainDefaults),
     Config(Commands, {"flag", "num"}, {"help", "sub1"}, {}, PlainDefaults)}

InitStranded == InitWith(VocabReq, ConfigsStranded)

SpecStranded == InitStranded /\ [][Next]_vars

\* The arguments declared by commands that have children.
ArgsBesideChildren ==
    {a \in ArgIds : \E c \in Commands : Children(c) # <<>> /\ OwnArgument(c, a)}

\* The required ones among them that the context or an ancestor declares.
Stranded == {a \in ArgsBesideChildren \cap cfg.required : OnChain(a)}

\* C36 as stated: with a required argument on a command that has children,
\* every Parse that ends in that command or below it returns a
\* missing-required-argument error.
C36_AsStated ==
    pc = "done" /\ Stranded # {} => result.kind = E_missingArg

\* C36, amended: an argument of a command that has children is never
\* resolved; with a required one on the final context or an ancestor Parse
\* returns an error and invokes no Action, and the error is the missing
\* argument's when the resolution phase, the pre-actions and the Set calls
\* succeeded and no entity visited before it ends the visit; a
\* missing-required error only ever names an entity of the final context or
\* of an ancestor.
C36_StrandedRequired ==
    /\ \A a \in ArgsBesideChildren : Unresolved(a)
    /\ pc = "done" /\ Stranded # {} => result # NoErr /\ actLog = <<>>
    /\ (/\ pc = "done" /\ parseErr = NoErr /\ ~PreActionFails /\ ~SetFails
        /\ FirstStop(ChainOrder(context)) \in Stranded)
          => result = Err(E_missingArg, Arg(FirstStop(ChainOrder(context))).Name, Empty)
    /\ pc = "done" /\ result.kind \in MissingKinds =>
          \E e \in cfg.required : OnChain(e) /\ Unresolved(e) /\ result = Missing(e)

\* C36: sub1 --flag=7 has parsed with the root's argument required: Parse
\* returns that it is missing although the context is sub1.
C36_Witness ==
    /\ pc = "done"
    /\ cfg.required = {"root-arg"}
    /\ cfg.failing = {}
    /\ cfg.defaults = PlainDefaults
    /\ argv = <<A_sub1, A_flag_eq_7>>
    /\ context = "sub1"
    /\ result = Err(E_missingArg, N_root_arg, Empty)
    /\ store.flag = 7
    /\ actLog = <<>>

\* sub1 --flag=7 has succeeded although num of sub2 is required and was not
\* given.
OffChainNotChecked ==
    /\ Succeeded
    /\ cfg.required = {"flag", "num"}
    /\ argv = <<A_sub1, A_flag_eq_7>>
    /\ Unresolved("num")

-----------------------------------------------------------------------------
(* The tokenizer on its own. *)

\* Long flags with and without a value, with an empty value and with "=" in
\* the value, single short flags and clusters, "-", "--", a plain value and
\* the empty string.
VocabScan ==
    {A_dashdash, A_dash, A_int, A_int_eq_5, A_int_eq, A_string_ab, A_b, A_bi7,
     A_x, Empty}

\* newTokenizer(args): no call is made yet.
InitScan ==
    /\ argv \in Argvs(VocabScan, MaxArgs)
    /\ targs = argv
    /\ tnext = NoToken
    /\ tokLog = <<>>
    /\ pc = "scan"
    /\ cfg = PlainConfig
    /\ tree = DeclaredTree
    /\ context = "root"
    /\ commands = EmptyMap
    /\ flags = EmptyMap
    /\ shortFlags = EmptyMap
    /\ args = <<>>
    /\ parsed = <<>>
    /\ verbatim = FALSE
    /\ parseErr = NoErr
    /\ result = NoErr
    /\ store = ZeroStore
    /\ seen = {}
    /\ setLog = <<>>
    /\ preLog = <<>>
    /\ actLog = <<>>

\* The tokenizer after the call of Next that gave r, which is logged.
Scanned(r) ==
    /\ targs' = r.args
    /\ tnext' = r.next
    /\ tokLog' = Append(tokLog, r.tok)

\* A call of tokenizer.Next(v), until EOF is returned.
ScanNext ==
    /\ pc \in {"scan", "peek"}
    /\ tokLog # <<>> => tokLog[Len(tokLog)].Type # tokenEOF
    /\ \E v \in BOOLEAN :
          /\ Scanned(TokNext(targs, tnext, v))
          /\ verbatim' = v
    /\ pc' = "scan"
    /\ UNCHANGED <<argv, cfg, context, commands, flags, shortFlags, args, parsed,
                   parseErr, result, store, seen, setLog, preLog, actLog, tree>>

\* A call of tokenizer.Peek(), which returns Peek(tnext) and assigns nothing.
ScanPeek ==
    /\ pc = "scan"
    /\ pc' = "peek"
    /\ UNCHANGED <<argv, cfg, targs, tnext, context, commands, flags, shortFlags,
                   args, parsed, verbatim, parseErr, result, store, seen, setLog,
                   preLog, actLog, tokLog, tree>>

NextScan == ScanNext \/ ScanPeek

SpecScan == InitScan /\ [][NextScan]_vars

\* What ends an argument string in the text of the arguments.
Separator == <<" ">>

RECURSIVE Joined(_)
\* The argument strings a as one text, each followed by the separator.
Joined(a) == IF a = <<>> THEN <<>> ELSE Head(a) \o Separator \o Joined(Tail(a))

\* The text of the token n on deck: the value behind "=", or the rest of a
\* cluster, up to the end of its argument string.
OnDeckText(n) ==
    IF n = NoToken THEN <<>>
    ELSE IF n.Type = tokenAssigned THEN <<"=">> \o n.Value \o Separator
    ELSE n.Value \o Separator

\* The text not yet returned by a tokenizer with the fields a, n.
Unread(a, n) == OnDeckText(n) \o Joined(a)

\* The text of the token t as it stands in the arguments, returned with n0 on
\* deck before the call and n1 after it.
AsRead(t, n0, n1) ==
    (CASE t.Type = tokenLong -> DashDash \o t.Value
       [] t.Type = tokenShort -> (IF n0 = NoToken THEN Dash ELSE <<>>) \o t.Value
       [] t.Type = tokenAssigned ->
            (IF n0.Type = tokenAssigned THEN <<"=">> ELSE <<>>) \o t.Value
       [] OTHER -> t.Value)
      \o (IF n1 = NoToken /\ t.Type # tokenEOF THEN Separator ELSE <<>>)

\* The token on deck is none, an assigned value or a remainder that is not
\* empty.
OneOnDeck ==
    \/ tnext = NoToken
    \/ tnext.Type = tokenAssigned
    \/ tnext.Type = tokenRemainder /\ tnext.Value # Empty

\* C37: the deck holds nothing or one token, an assigned value or a
\* remainder; a token is on deck after a call only if the call returned a
\* long flag read from an argument string with "=" in it, the value behind
\* the "=" being on deck, or a short flag with the rest of its cluster on
\* deck; Peek changes nothing and never gives a remainder; and every call of
\* Next returns the token that stands first in the text not yet returned, so
\* that at EOF all of the arguments has been returned, in order.
C37_Scanner ==
    /\ [](OneOnDeck)
    /\ [](tokLog = <<>> => tnext = NoToken /\ Unread(targs, tnext) = Joined(argv))
    /\ [][tokLog' # tokLog /\ tnext' # NoToken =>
            \/ /\ tnext'.Type = tokenAssigned
               /\ tokLog'[Len(tokLog')].Type = tokenLong
               /\ tnext = NoToken
               /\ targs # <<>>
               /\ Head(targs) = DashDash \o tokLog'[Len(tokLog')].Value
                                  \o <<"=">> \o tnext'.Value
            \/ /\ tnext'.Type = tokenRemainder
               /\ tokLog'[Len(tokLog')].Type = tokenShort]_vars
    /\ [](Peek(tnext) \in {NoToken, tnext} /\ Peek(tnext).Type # tokenRemainder)
    /\ [][pc' = "peek" => targs' = targs /\ tnext' = tnext /\ tokLog' = tokLog]_vars
    /\ [][tokLog' # tokLog =>
            /\ tokLog' = Append(tokLog, tokLog'[Len(tokLog')])
            /\ Unread(targs, tnext)
                 = AsRead(tokLog'[Len(tokLog')], tnext, tnext') \o Unread(targs', tnext')]_vars
    /\ [](tokLog # <<>> /\ tokLog[Len(tokLog)].Type = tokenEOF =>
            Unread(targs, tnext) = <<>>)

\* C37: -bi7 --int=5 has been read with Next(false) but for the third call:
\* -b, -i, the rest of the cluster as a value, --int, the value 5 and EOF.
C37_Witness ==
    /\ argv = <<A_bi7, A_int_eq_5>>
    /\ tokLog = <<Token(tokenShort, <<"b">>), Token(tokenShort, <<"i">>),
                  Token(tokenAssigned, <<"7">>), Token(tokenLong, N_int),
                  Token(tokenAssigned, <<"5">>), Token(tokenEOF, Empty)>>
    /\ targs = <<>>
    /\ tnext = NoToken

\* The case MultipleShort of TestTokenize, without its last string.
MultipleShort ==
    /\ argv = <<<<"-", "b", "i", "7">>, A_dash, A_b>>
    /\ tokLog = <<Token(tokenShort, <<"b">>), Token(tokenShort, <<"i">>),
                  Token(tokenShort, <<"7">>), Token(tokenValue, A_dash),
                  Token(tokenShort, <<"b">>), Token(tokenEOF, Empty)>>

====
